---- MODULE Spec2Model ----
(***************************************************************************)
(* Verification model of the host side of mcp-darktable:                   *)
(*   - McpClient (common.py), the stdio JSON-RPC transport that owns one   *)
(*     worker process (start, request, _drain_stderr, close,               *)
(*     __enter__/__exit__);                                                *)
(*   - prepare_vision_payloads_async (common.py), the thread-pool image    *)
(*     pipeline;                                                           *)
(*   - BatchProcessor (batch_processor.py), the run of one mode: fetch,    *)
(*     prompt, images, LLM call, run log, parse, catalog mutation.         *)
(*   - the bundle mount of McpClient.__init__ (_setup_appimage_env,        *)
(*     _cleanup_appimage) and the entry points that own a client (a with   *)
(*     statement, probe_darktable_state, the main function of a host);     *)
(*   - post_json_with_retries (common.py), the retry loop of the LLM POST. *)
(* The host side of each pipe is a Python text stream: a kernel pipe       *)
(* (what select() sees) in front of a userspace buffer (what readline()    *)
(* serves first).  Both halves are modelled.                               *)
(***************************************************************************)
EXTENDS Integers, Sequences, FiniteSets, TLC

\* ------------------------------------------------------------------ bounds
MaxCalls   == 2     \* request() calls per client
MaxStderr  == 2     \* diagnostic lines a worker writes
MaxSpawns  == 2     \* worker processes one client spawns
MaxRecords == 3     \* records in one batch
MaxWorkers == 2     \* pool threads (max_workers)
MaxSample  == 2     \* records the catalog lists, and the largest --limit
MaxRetries == 2     \* the largest retries argument of post_json_with_retries
MaxChunks  == 3     \* writes the worker makes to stderr during one drain

VARIABLES
    \* ---- McpClient fields
    proc,           \* self.proc: "None" or "Popen"
    msg_id,         \* self.msg_id
    appimage_proc,  \* self._appimage_proc: "None" or "Popen"
    \* ---- the worker process and the three pipes of self.proc
    worker,         \* "none" (never spawned), "alive", "exited"
    streams,        \* host-side handles: [stdin, stdout, stderr] -> open?
    stdinDirty,     \* host's stdin text buffer holds bytes a flush could not write
    stdinPipe,      \* request lines written, not yet read by the worker
    stdoutPipe,     \* response lines in the kernel pipe
    stdoutBuf,      \* response lines already pulled into the host's buffer
    stderrPipe,     \* diagnostic lines in the kernel pipe
    stderrBuf,      \* diagnostic lines already pulled into the host's buffer
    \* ---- the caller's position
    pc,             \* "idle", "select", "readline"
    cur,            \* the request of the call in progress
    scope,          \* with-block: "out", "in", "exited_ok", "exited_exc"
    \* ---- observation of the run (history)
    ids,            \* the correlation ids of the calls made, in call order
    last,           \* the record of the latest finished request() call
    outSince,       \* the worker wrote to stdout since the latest request line
    answered,       \* the worker wrote the response to the latest request
    sent,           \* signals the latest close() sent to the worker, in order
    spawns,         \* number of Popen calls made by start()
    nStderr,        \* diagnostic lines written by the current worker
    closeRet,       \* how the latest close() ended:
                    \* "none", "returned", "raised", "noop" (nothing to close)
    \* ---- prepare_vision_payloads_async: arguments
    images_list,    \* the input records
    attach_images,
    max_workers,
    has_callback,   \* a progress_callback was passed
    \* ---- prepare_vision_payloads_async: the call in progress
    vpc,            \* main thread: "call", "submit", "collect", "done"
    queue,          \* submitted work items no pool thread has taken yet
    task,           \* per pool thread: the work item it runs and how far it is
    completed_count,
    total_b64_size,
    futures,        \* idx -> result of process_single_image, for done futures
    results,        \* the results dict, in insertion order
    payloads,
    errors,
    progress,       \* the progress_callback invocations, in order
    \* ---- BatchProcessor: what it is constructed and run with
    mode,           \* the mode passed to run()
    dry_run,        \* self.dry_run
    args,           \* the parsed command line: text_only, target_dir, limit
    catalog,        \* the records the worker lists for args' filter
    \* ---- BatchProcessor: position of the run
    active,         \* the run_mode_* method being executed ("" before run)
    todo,           \* the modes run_mode_completo has still to call
    bpc,            \* "run", "enter", "fetch", "prompt", "vision", "chat",
                    \* "log", "parse", "apply", "return", "done", "raised"
    site,           \* where the active method (or its _process_common)
                    \* returned: "" while it runs
    \* ---- BatchProcessor: locals of the active method
    images,         \* fetch_images' result
    answer,         \* the model answer, a sequence of text lines
    work,           \* the entries of the parsed answer still to be handled
    rating_edits,
    color_edits,
    \* ---- BatchProcessor: effects of the run
    logs,           \* mode -> the run log file save_log wrote for it
    chats,          \* the provider.chat invocations, in order
    calls,          \* the catalog mutation calls made, in order
    printed,        \* what the active method reported on stdout / the log
    metrics,        \* entries appended to logs/metrics.json
    escaped,        \* the exception that left run(): [exc, at]
    \* ---- McpClient: the bundle mount and the code that owns the client
    env,            \* self.env: what the worker's environment is built from
    helper,         \* the --appimage-mount helper process
    owner,          \* the entry point that owns the client, and how far it is
    DT_SERVER_CMD,  \* the module-level command list every client is built from
    \* ---- post_json_with_retries
    http,           \* the call: its arguments, attempts, sleeps and outcome
    \* ---- _drain_stderr on a stream whose writer may stop in mid-line
    drain           \* the stream, the loop's position and the lines read

clientVars == <<proc, msg_id, appimage_proc>>
pipeVars   == <<worker, streams, stdinDirty, stdinPipe, stdoutPipe, stdoutBuf,
                stderrPipe, stderrBuf>>
callVars   == <<pc, cur, ids, last>>
obsVars    == <<outSince, answered, sent, spawns, nStderr, closeRet>>
rpcVars    == <<clientVars, pipeVars, callVars, obsVars, scope>>

visVars    == <<images_list, attach_images, max_workers, has_callback, vpc,
                queue, task, completed_count, total_b64_size, futures,
                results, payloads, errors, progress>>

batchVars  == <<mode, dry_run, args, catalog, active, todo, bpc, site,
                images, answer, work, rating_edits, color_edits,
                logs, chats, calls, printed, metrics, escaped>>

hostVars   == <<env, helper, owner, DT_SERVER_CMD>>
httpVars   == <<http>>
drainVars  == <<drain>>

vars == <<rpcVars, visVars, batchVars, hostVars, httpVars, drainVars>>

\* ------------------------------------------------------------ text helpers
WS == {" "}

RECURSIVE LStrip(_)
LStrip(s) == IF s # <<>> /\ Head(s) \in WS THEN LStrip(Tail(s)) ELSE s

RECURSIVE RStrip(_)
RStrip(s) == IF s # <<>> /\ s[Len(s)] \in WS
             THEN RStrip(SubSeq(s, 1, Len(s) - 1)) ELSE s

\* str.strip() on one line (the trailing newline is implicit in a line)
Strip(s) == RStrip(LStrip(s))

RECURSIVE Join(_, _)
\* sep.join(lines)
Join(sep, lines) ==
    IF lines = <<>> THEN <<>>
    ELSE IF Len(lines) = 1 THEN lines[1]
    ELSE lines[1] \o sep \o Join(sep, Tail(lines))

Contains(text, sub) ==
    \E i \in 1..(Len(text) - Len(sub) + 1) : SubSeq(text, i, i + Len(sub) - 1) = sub

\* ------------------------------------------------------------------- JSON
\* A JSON object text is a sequence of <<key, value>> members; a value is a
\* sequence of tokens.  json.loads keeps the last member of each key.
JsonKeys(members) == { members[i][1] : i \in 1..Len(members) }

JsonLoads(members) ==
    [ k \in JsonKeys(members) |->
        LET li == CHOOSE i \in 1..Len(members) :
                        /\ members[i][1] = k
                        /\ \A j \in (i+1)..Len(members) : members[j][1] # k
        IN members[li][2] ]

Has(obj, k) == k \in DOMAIN obj

\* A line on a pipe: a JSON object text, or text that is not JSON.
JsonLine(members) == [json |-> TRUE, members |-> members]

\* ---------------------------------------------------------------- requests
\* <<method, params>> of the calls the caller makes
RequestSet == { <<"echo", <<"foo", "bar">>>>, <<"nope", <<>>>> }

NoReq == [id |-> "", method |-> "", params |-> <<>>]

NextIdSkip(m) == m + 2

\* McpClient._next_id: self.msg_id += 1
NextId(m) == m + 1

\* the request line of McpClient.request
RequestLine(id, method, params) ==
    JsonLine(<< <<"jsonrpc", <<"2.0">>>>, <<"id", <<id>>>>,
                <<"method", <<method>>>>, <<"params", params>> >>)

\* ------------------------------------------------------------- stub worker
\* The reply of the test worker to one request line.
WorkerReply(line) ==
    LET data == JsonLoads(line.members)
        m    == data["method"][1]
    IN  IF m = "echo"
        THEN JsonLine(<< <<"jsonrpc", <<"2.0">>>>, <<"id", data["id"]>>,
                         <<"result", <<"echo">> \o data["params"]>> >>)
        ELSE JsonLine(<< <<"jsonrpc", <<"2.0">>>>, <<"id", data["id"]>>,
                         <<"error", <<"message", "unknown">>>> >>)

\* the n-th diagnostic line a worker writes
StderrLine(n) == IF n % 2 = 1 THEN <<"d", "1">> ELSE <<" ", "w", "2", " ">>

\* ------------------------------------------------------- _drain_stderr
\* select([stderr], 0) is ready when the kernel pipe holds data or is at EOF;
\* readline() serves the userspace buffer first and otherwise pulls everything
\* the pipe holds into the buffer.
RECURSIVE DrainLoop(_, _, _, _)
DrainLoop(pipe, buf, eof, acc) ==
    IF pipe = <<>> /\ ~eof
    THEN [lines |-> acc, pipe |-> pipe, buf |-> buf]
    ELSE IF buf # <<>>
    THEN DrainLoop(pipe, Tail(buf), eof, Append(acc, Strip(Head(buf))))
    ELSE IF pipe # <<>>
    THEN DrainLoop(<<>>, Tail(pipe), eof, Append(acc, Strip(Head(pipe))))
    ELSE [lines |-> acc, pipe |-> pipe, buf |-> buf]

drain_stderr == DrainLoop(stderrPipe, stderrBuf, worker = "exited", <<>>)

\* extra = f" | stderr: {stderr_output}" if stderr_output else ""
StderrTag == <<" ", "|", " ", "stderr:", " ">>
Extra(lines) ==
    LET content == Join(<<" ", "|", " ">>, lines)
    IN  IF content # <<>> THEN StderrTag \o content ELSE <<>>

TimeoutMessage(lines) == <<"(timeout)">> \o Extra(lines)
ClosedMessage(lines)  == <<"(stdout vazio)">> \o Extra(lines)

\* ------------------------------------------------------ response handling
ParseResponseNoError(line) ==
    IF ~line.json THEN [kind |-> "JSONDecodeError", value |-> <<>>]
    ELSE LET resp == JsonLoads(line.members)
         IN  IF Has(resp, "result")
             THEN [kind |-> "Result", value |-> resp["result"]]
             ELSE [kind |-> "KeyError", value |-> <<>>]

\* json.loads(resp_line); raise RuntimeError(resp["error"]) / return resp["result"]
ParseResponse(line) ==
    IF ~line.json THEN [kind |-> "JSONDecodeError", value |-> <<>>]
    ELSE LET resp == JsonLoads(line.members)
         IN  IF Has(resp, "error")
             THEN [kind |-> "RpcError", value |-> resp["error"]]
             ELSE IF Has(resp, "result")
             THEN [kind |-> "Result", value |-> resp["result"]]
             ELSE [kind |-> "KeyError", value |-> <<>>]

LineId(line) ==
    IF line.json /\ Has(JsonLoads(line.members), "id")
    THEN JsonLoads(line.members)["id"][1] ELSE ""

NoLine == [json |-> FALSE, members |-> <<>>]

\* what one finished call leaves behind for observation
CallRecord(req, out, line, gotLine, msg, avail) ==
    [ id       |-> req.id,
      kind     |-> out.kind,
      value    |-> out.value,
      gotLine  |-> gotLine,
      line     |-> line,
      message  |-> msg,
      avail    |-> avail,
      running  |-> proc = "Popen",
      exited   |-> worker = "exited",
      answered |-> (answered /\ req.id = ToString(msg_id)) ]

NoCall == [ id |-> "", kind |-> "none", value |-> <<>>, gotLine |-> FALSE,
            line |-> NoLine, message |-> <<>>, avail |-> <<>>,
            running |-> FALSE, exited |-> FALSE, answered |-> FALSE ]

\* the call in progress ends: its record is kept, the caller is idle
Finish(req, out, line, gotLine, msg, avail) ==
    /\ last' = CallRecord(req, out, line, gotLine, msg, avail)
    /\ pc' = "idle"
    /\ cur' = NoReq

\* ------------------------------------------------------------------- Init
NoTask == [idx |-> 0, stage |-> "idle", current |-> 0]

\* no pipeline call is made
VisionIdle ==
    /\ images_list = <<>>
    /\ attach_images = FALSE
    /\ max_workers = 1
    /\ has_callback = FALSE
    /\ vpc = "done"
    /\ queue = <<>>
    /\ task = [w \in 1..MaxWorkers |-> NoTask]
    /\ completed_count = 0
    /\ total_b64_size = 0
    /\ futures = <<>>
    /\ results = <<>>
    /\ payloads = <<>>
    /\ errors = <<>>
    /\ progress = <<>>

\* the run_mode_* methods that do the work of one mode
StageModes == {"rating", "tagging", "export", "tratamento"}

NoLog == [written |-> FALSE, mode |-> "", source |-> "",
          images_sample |-> <<>>, model_answer |-> <<>>, extra |-> <<>>]

NoRaise == [exc |-> "", at |-> ""]

\* the locals of a mode method before it has assigned them
FreshLocals ==
    /\ site = ""
    /\ images = <<>>
    /\ answer = <<>>
    /\ work = <<>>
    /\ rating_edits = <<>>
    /\ color_edits = <<>>

\* nothing has happened in the run yet
NoEffects ==
    /\ logs = [m \in StageModes |-> NoLog]
    /\ chats = <<>>
    /\ calls = <<>>
    /\ printed = {}
    /\ metrics = <<>>
    /\ escaped = NoRaise

\* no BatchProcessor is run
BatchIdle ==
    /\ mode = ""
    /\ dry_run = FALSE
    /\ args = [text_only |-> TRUE, target_dir |-> "", limit |-> 1]
    /\ catalog = <<>>
    /\ active = ""
    /\ todo = <<>>
    /\ bpc = "done"
    /\ FreshLocals
    /\ NoEffects

\* the env argument as the caller passed it, nothing added
CallerEnv == [base |-> "caller", added |-> {}]

\* self.env before __init__ has assigned it
EnvUnset == [base |-> "unset", added |-> {}]

\* no --appimage-mount helper was spawned
NoHelper == [state |-> "none", terms |-> 0, kills |-> 0]

\* DT_SERVER_CMD = ["lua", str(BASE_DIR / "server" / "dt_mcp_server.lua")]
OriginalCommand == <<"lua", "dt_mcp_server.lua">>

NoOwner == [kind |-> "none", at |-> "done", target |-> FALSE, mount |-> "none"]

\* a client built from a plain command and driven by no entry point
HostIdle ==
    /\ DT_SERVER_CMD = OriginalCommand
    /\ env = CallerEnv
    /\ helper = NoHelper
    /\ owner = NoOwner

NoHttp == [retries |-> 0, retry_delay |-> 0, attempt |-> 0, trace |-> <<>>,
           last_timeout_msg |-> 0, last_error |-> "None", ret |-> "idle"]

\* no post_json_with_retries call
HttpIdle == http = NoHttp

NoDrain == [pipe |-> <<>>, buf |-> <<>>, writer |-> "exited", wrote |-> 0,
            pc |-> "returned", lines |-> <<>>]

\* no _drain_stderr call followed step by step
DrainIdle == drain = NoDrain

AllOpen   == [s \in {"stdin", "stdout", "stderr"} |-> TRUE]
AllClosed == [s \in {"stdin", "stdout", "stderr"} |-> FALSE]

\* a client right after McpClient(command, ...) with a plain command
ClientFresh ==
    /\ proc = "None"
    /\ msg_id = 0
    /\ appimage_proc = "None"
    /\ worker = "none"
    /\ streams = AllClosed
    /\ stdinDirty = FALSE
    /\ stdinPipe = <<>> /\ stdoutPipe = <<>> /\ stdoutBuf = <<>>
    /\ stderrPipe = <<>> /\ stderrBuf = <<>>
    /\ pc = "idle"
    /\ cur = NoReq
    /\ scope = "out"
    /\ ids = <<>>
    /\ last = NoCall
    /\ outSince = FALSE
    /\ answered = FALSE
    /\ sent = <<>>
    /\ spawns = 0
    /\ nStderr = 0
    /\ closeRet = "none"

InitRpc == DrainIdle /\ ClientFresh /\ VisionIdle /\ BatchIdle /\ HostIdle /\ HttpIdle

\* ------------------------------------------------------------------ start
StartBodyRespawns ==
    /\ proc' = "Popen"
    /\ worker' = "alive"
    /\ streams' = AllOpen
    /\ stdinDirty' = FALSE
    /\ stdinPipe' = <<>> /\ stdoutPipe' = <<>> /\ stdoutBuf' = <<>>
    /\ stderrPipe' = <<>> /\ stderrBuf' = <<>>
    /\ spawns' = spawns + 1
    /\ nStderr' = 0
    /\ closeRet' = "none"

\* McpClient.start: no-op when self.proc is set, else Popen with three pipes
StartBody ==
    IF proc # "None"
    THEN UNCHANGED <<proc, pipeVars, spawns, nStderr, closeRet>>
    ELSE /\ proc' = "Popen"
         /\ worker' = "alive"
         /\ streams' = AllOpen
         /\ stdinDirty' = FALSE
         /\ stdinPipe' = <<>> /\ stdoutPipe' = <<>> /\ stdoutBuf' = <<>>
         /\ stderrPipe' = <<>> /\ stderrBuf' = <<>>
         /\ spawns' = spawns + 1
         /\ nStderr' = 0
         /\ closeRet' = "none"

Start ==
    /\ pc = "idle"
    /\ proc = "None" => spawns < MaxSpawns
    /\ StartBody
    /\ UNCHANGED <<msg_id, appimage_proc, callVars, scope,
                   outSince, answered, sent>>
    /\ UNCHANGED <<visVars, batchVars, hostVars, httpVars, drainVars>>

\* McpClient.__enter__: self.start(); return self
Enter ==
    /\ pc = "idle"
    /\ scope = "out"
    /\ proc = "None" => spawns < MaxSpawns
    /\ StartBody
    /\ scope' = "in"
    /\ UNCHANGED <<msg_id, appimage_proc, callVars,
                   outSince, answered, sent>>
    /\ UNCHANGED <<visVars, batchVars, hostVars, httpVars, drainVars>>

\* ---------------------------------------------------------------- request
\* McpClient.request up to the flush of the request line
RequestWrite(method, params) ==
    /\ pc = "idle"
    /\ msg_id < MaxCalls
    /\ msg_id' = NextId(msg_id)
    /\ ids' = Append(ids, ToString(msg_id'))
    /\ outSince' = FALSE
    /\ answered' = FALSE
    /\ LET req == [id |-> ToString(msg_id'), method |-> method, params |-> params]
       IN  IF proc = "None"
           THEN \* self.proc.stdin on None
                /\ Finish(req, [kind |-> "AttributeError", value |-> <<>>],
                          NoLine, FALSE, <<>>, <<>>)
                /\ UNCHANGED pipeVars
           ELSE IF worker # "alive"
           THEN \* the read end of stdin is gone: flush raises BrokenPipeError
                /\ Finish(req, [kind |-> "BrokenPipeError", value |-> <<>>],
                          NoLine, FALSE, <<>>, <<>>)
                /\ stdinDirty' = TRUE
                /\ UNCHANGED <<worker, streams, stdinPipe, stdoutPipe, stdoutBuf,
                               stderrPipe, stderrBuf>>
           ELSE /\ stdinPipe' = Append(stdinPipe, RequestLine(req.id, method, params))
                /\ pc' = "select"
                /\ cur' = req
                /\ UNCHANGED <<last, worker, streams, stdinDirty, stdoutPipe,
                               stdoutBuf, stderrPipe, stderrBuf>>
    /\ UNCHANGED <<proc, appimage_proc, scope, sent, spawns, nStderr, closeRet>>
    /\ UNCHANGED <<visVars, batchVars, hostVars, httpVars, drainVars>>

TimeoutKillsWorker ==
    /\ worker' = "exited"
    /\ sent' = Append(sent, "KILL")
    /\ streams' = AllClosed
    /\ UNCHANGED proc

\* the timeout branch of request drains stderr, logs and raises: it sends
\* the worker no signal, closes no stream and keeps self.proc
TimeoutLeavesWorker == UNCHANGED <<proc, worker, streams, sent>>

\* select([stdout], response_timeout) returned nothing: Timeout with diagnostics
RequestTimeout ==
    /\ pc = "select"
    /\ stdoutPipe = <<>>
    /\ worker = "alive"
    /\ LET d == drain_stderr
       IN  /\ stderrPipe' = d.pipe
           /\ stderrBuf' = d.buf
           /\ Finish(cur, [kind |-> "Timeout", value |-> <<>>], NoLine, FALSE,
                     TimeoutMessage(d.lines), stderrBuf \o stderrPipe)
    /\ TimeoutLeavesWorker
    /\ UNCHANGED <<msg_id, appimage_proc, stdinDirty, stdinPipe,
                   stdoutPipe, stdoutBuf, ids, scope,
                   outSince, answered, spawns, nStderr, closeRet>>
    /\ UNCHANGED <<visVars, batchVars, hostVars, httpVars, drainVars>>

\* select([stdout], response_timeout) reports stdout readable (data or EOF)
RequestReady ==
    /\ pc = "select"
    /\ stdoutPipe # <<>> \/ worker = "exited"
    /\ pc' = "readline"
    /\ UNCHANGED <<clientVars, pipeVars, cur, ids, last, scope, obsVars>>
    /\ UNCHANGED <<visVars, batchVars, hostVars, httpVars, drainVars>>

\* resp_line = self.proc.stdout.readline() and everything after it
RequestReadline ==
    /\ pc = "readline"
    /\ IF stdoutBuf # <<>> \/ stdoutPipe # <<>>
       THEN LET all  == stdoutBuf \o stdoutPipe
                line == Head(all)
            IN  /\ stdoutPipe' = IF stdoutBuf # <<>> THEN stdoutPipe ELSE <<>>
                /\ stdoutBuf' = IF stdoutBuf # <<>> THEN Tail(stdoutBuf)
                                ELSE Tail(stdoutPipe)
                /\ Finish(cur, ParseResponse(line), line, TRUE, <<>>, <<>>)
                /\ UNCHANGED <<stderrPipe, stderrBuf>>
       ELSE \* EOF: "stdout vazio"
            LET d == drain_stderr
            IN  /\ stderrPipe' = d.pipe
                /\ stderrBuf' = d.buf
                /\ Finish(cur, [kind |-> "TransportClosed", value |-> <<>>],
                          NoLine, FALSE, ClosedMessage(d.lines),
                          stderrBuf \o stderrPipe)
                /\ UNCHANGED <<stdoutPipe, stdoutBuf>>
    /\ UNCHANGED <<clientVars, worker, streams, stdinDirty, stdinPipe,
                   ids, scope, obsVars>>
    /\ UNCHANGED <<visVars, batchVars, hostVars, httpVars, drainVars>>

\* ----------------------------------------------------------------- worker
\* the worker reads one request line and writes its response line
WorkerHandle ==
    /\ proc = "Popen" /\ worker = "alive"
    /\ stdinPipe # <<>>
    /\ stdoutPipe' = Append(stdoutPipe, WorkerReply(Head(stdinPipe)))
    /\ stdinPipe' = Tail(stdinPipe)
    /\ outSince' = TRUE
    /\ answered' = (answered \/ LineId(Head(stdinPipe)) = ToString(msg_id))
    /\ UNCHANGED <<clientVars, worker, streams, stdinDirty, stdoutBuf,
                   stderrPipe, stderrBuf, callVars, scope,
                   sent, spawns, nStderr, closeRet>>
    /\ UNCHANGED <<visVars, batchVars, hostVars, httpVars, drainVars>>

\* the worker writes one diagnostic line
WorkerStderr ==
    /\ proc = "Popen" /\ worker = "alive"
    /\ nStderr < MaxStderr
    /\ stderrPipe' = Append(stderrPipe, StderrLine(nStderr + 1))
    /\ nStderr' = nStderr + 1
    /\ UNCHANGED <<clientVars, worker, streams, stdinDirty, stdinPipe,
                   stdoutPipe, stdoutBuf, stderrBuf, callVars, scope,
                   outSince, answered, sent, spawns, closeRet>>
    /\ UNCHANGED <<visVars, batchVars, hostVars, httpVars, drainVars>>

\* the worker process exits on its own
WorkerExit ==
    /\ worker = "alive"
    /\ worker' = "exited"
    /\ stdinPipe' = <<>>
    /\ UNCHANGED <<clientVars, streams, stdinDirty, stdoutPipe, stdoutBuf,
                   stderrPipe, stderrBuf, callVars, scope, obsVars>>
    /\ UNCHANGED <<visVars, batchVars, hostVars, httpVars, drainVars>>

\* ------------------------------------------------------------------ close
StreamOrder == <<"stdin", "stdout", "stderr">>

RECURSIVE CloseEachAbort(_, _, _)
CloseEachAbort(order, s, raises) ==
    IF order = <<>> THEN s
    ELSE IF Head(order) \in raises THEN [s EXCEPT ![Head(order)] = FALSE]
    ELSE CloseEachAbort(Tail(order), [s EXCEPT ![Head(order)] = FALSE], raises)

RECURSIVE CloseEach(_, _, _)
\* for stream in (stdin, stdout, stderr): try: stream.close() except: pass
\* (a close() that raises while flushing has still released its descriptor)
CloseEach(order, s, raises) ==
    IF order = <<>> THEN s
    ELSE CloseEach(Tail(order), [s EXCEPT ![Head(order)] = FALSE], raises)

ProcAfterCloseKept(p) == p

\* self.proc = None
ProcAfterClose(p) == "None"

\* the part of close() after the signalling: close the streams, drop the handle
CloseRelease ==
    /\ streams' = CloseEach(StreamOrder, streams,
                            IF stdinDirty THEN {"stdin"} ELSE {})
    /\ stdinDirty' = FALSE
    /\ stdinPipe' = <<>> /\ stdoutPipe' = <<>> /\ stdoutBuf' = <<>>
    /\ stderrPipe' = <<>> /\ stderrBuf' = <<>>
    /\ proc' = ProcAfterClose(proc)
    /\ closeRet' = "returned"

CloseKeep ==
    UNCHANGED <<proc, streams, stdinDirty, stdinPipe, stdoutPipe, stdoutBuf,
                stderrPipe, stderrBuf>>

\* McpClient.close.  tRaise: terminate() raises; obeys: the worker exits within
\* the 5 s wait after SIGTERM; kRaise: kill() raises.
CloseBody(tRaise, obeys, kRaise) ==
    IF proc = "None"
    THEN \* if not self.proc: return
         /\ closeRet' = "noop"
         /\ sent' = <<>>
         /\ worker' = worker
         /\ CloseKeep
    ELSE IF worker # "alive"
    THEN \* poll() is not None: no signal
         /\ sent' = <<>>
         /\ worker' = worker
         /\ CloseRelease
    ELSE IF tRaise
    THEN \* except Exception: try kill() except: pass
         /\ IF kRaise
            THEN sent' = <<>> /\ worker' = worker
            ELSE sent' = <<"KILL">> /\ worker' = "exited"
         /\ CloseRelease
    ELSE IF obeys
    THEN /\ sent' = <<"TERM">>
         /\ worker' = "exited"
         /\ CloseRelease
    ELSE IF kRaise
    THEN \* except TimeoutExpired: self.proc.kill() raises out of close()
         /\ sent' = <<"TERM">>
         /\ worker' = worker
         /\ closeRet' = "raised"
         /\ CloseKeep
    ELSE /\ sent' = <<"TERM", "KILL">>
         /\ worker' = "exited"
         /\ CloseRelease

Close ==
    /\ pc = "idle"
    /\ \E tRaise \in BOOLEAN, obeys \in BOOLEAN, kRaise \in BOOLEAN :
           CloseBody(tRaise, obeys, kRaise)
    /\ UNCHANGED <<msg_id, appimage_proc, callVars, scope,
                   outSince, answered, spawns, nStderr>>
    /\ UNCHANGED <<visVars, batchVars, hostVars, httpVars, drainVars>>

\* McpClient._cleanup_appimage on the helper process: nothing when
\* self._appimage_proc is None, else terminate(), wait(timeout=2) and kill()
\* when the wait times out; self._appimage_proc = None afterwards
cleanup_appimage(ap, h, obeys) ==
    IF ap = "None" THEN h
    ELSE [state |-> "exited", terms |-> h.terms + 1,
          kills |-> h.kills + IF obeys THEN 0 ELSE 1]

\* McpClient.__exit__: self.close(); self._cleanup_appimage(); return False
\* exc: the with-body is left through an exception
ExitBody(exc) ==
    /\ \E tRaise \in BOOLEAN, obeys \in BOOLEAN, kRaise \in BOOLEAN :
           CloseBody(tRaise, obeys, kRaise)
    /\ appimage_proc' = IF closeRet' = "raised" THEN appimage_proc ELSE "None"
    /\ \E obeys \in BOOLEAN :
           helper' = IF closeRet' = "raised" THEN helper
                     ELSE cleanup_appimage(appimage_proc, helper, obeys)
    /\ scope' = IF exc \/ closeRet' = "raised" THEN "exited_exc" ELSE "exited_ok"

Exit(exc) ==
    /\ pc = "idle"
    /\ scope = "in"
    /\ ExitBody(exc)
    /\ UNCHANGED <<msg_id, callVars, outSince, answered, spawns, nStderr>>
    /\ UNCHANGED <<visVars, batchVars, env, owner, DT_SERVER_CMD, httpVars,
                   drainVars>>

\* ---------------------------------------------------------- specification
\* the client driven through start() and close()
NextRpc ==
    \/ Start
    \/ \E r \in RequestSet : RequestWrite(r[1], r[2])
    \/ RequestTimeout
    \/ RequestReady
    \/ RequestReadline
    \/ WorkerHandle
    \/ WorkerStderr
    \/ WorkerExit
    \/ Close

SpecRpc == InitRpc /\ [][NextRpc]_vars

\* the client driven through one with McpClient(...) as client block
NextScope ==
    \/ Enter
    \/ \E r \in RequestSet : RequestWrite(r[1], r[2])
    \/ RequestTimeout
    \/ RequestReady
    \/ RequestReadline
    \/ WorkerHandle
    \/ WorkerStderr
    \/ WorkerExit
    \/ \E exc \in BOOLEAN : Exit(exc)

SpecScope == InitRpc /\ [][NextScope]_vars

\* ================================================================
\* the bundle mount of McpClient.__init__ and the entry points that own a
\* client
\* ================================================================
\* how the code that owns the client is written: a with statement (the GUI,
\* the tests), probe_darktable_state (start, try, finally close), the main
\* function of a host (construct, try, finally close)
OwnerKinds == {"with", "probe", "main"}

\* how _setup_appimage_env goes once a bundle is detected: Popen of the
\* helper raises; the helper's first line is empty; the mount point is read
\* and a later step raises; the mount point is read and libdarktable.so is
\* in none of the places searched; everything is found
MountOutcomes == {"popen_raises", "no_mount_point", "discovery_raises",
                  "lib_not_found", "mounted"}

\* the outcomes the code treats as a failed mount
MountFailures == {"popen_raises", "no_mount_point", "discovery_raises"}

\* new_env: a copy of the caller's environment with the bundle's variables
\* set, DARKTABLE_LIB_PATH only when lib_so exists
Augmented(lib_found) ==
    [base |-> "caller",
     added |-> {"LD_LIBRARY_PATH", "DARKTABLE_CLI_CMD", "DT_MCP_LD_REEXEC"}
               \cup IF lib_found THEN {"DARKTABLE_LIB_PATH"} ELSE {}]

FallbackEnvAugmented == Augmented(FALSE)

\* self.env = env, the last line of _setup_appimage_env
FallbackEnv == CallerEnv

HelperSpawned == [state |-> "alive", terms |-> 0, kills |-> 0]

\* _setup_appimage_env: self.env when it returns
SetupEnv(target, o) ==
    IF ~target THEN CallerEnv
    ELSE IF o \in MountFailures THEN FallbackEnv
    ELSE Augmented(o = "mounted")

\* _setup_appimage_env: self._appimage_proc when it returns; the except
\* clause has run _cleanup_appimage
SetupProc(target, o) ==
    IF target /\ o \in {"no_mount_point", "lib_not_found", "mounted"}
    THEN "Popen" ELSE "None"

\* _setup_appimage_env: the helper process when it returns
SetupHelper(target, o, obeys) ==
    IF ~target \/ o = "popen_raises" THEN NoHelper
    ELSE IF o = "discovery_raises"
    THEN cleanup_appimage("Popen", HelperSpawned, obeys)
    ELSE HelperSpawned

\* which interpreter the bundle check finds: usr/bin/lua or usr/bin/luajit
\* under the mount point, else lua5.4 on the PATH, else none
LuaFound == {"bundled", "lua5.4", "none"}

\* _setup_appimage_env, the bundled-interpreter check: reached once the
\* mount point was read and no step raised; self.command is the list object
\* the caller passed, and self.command[0] = ... assigns into it
SetupCommand(cmd, target, o, lua) ==
    IF /\ target
       /\ o \in {"lib_not_found", "mounted"}
       /\ cmd[1] = "lua"
       /\ lua # "none"
    THEN [cmd EXCEPT ![1] = lua]
    ELSE cmd

OwnerAt(at) == [owner EXCEPT !.at = at]

\* an entry point about to construct its client, the command or
\* appimage_path naming a bundle or not
InitHost ==
    /\ ClientFresh /\ VisionIdle /\ BatchIdle /\ HttpIdle /\ DrainIdle
    /\ env = EnvUnset
    /\ helper = NoHelper
    /\ DT_SERVER_CMD = OriginalCommand
    /\ owner \in [kind : OwnerKinds, at : {"construct"}, target : BOOLEAN,
                  mount : {"none"}]

\* McpClient(...): __init__ with _setup_appimage_env.  The main function
\* goes on to its try block without calling start()
Construct ==
    /\ owner.at = "construct"
    /\ \E o \in IF owner.target THEN MountOutcomes ELSE {"none"},
          obeys \in BOOLEAN,
          lua \in IF owner.target THEN LuaFound ELSE {"none"} :
          /\ env' = SetupEnv(owner.target, o)
          /\ DT_SERVER_CMD' = SetupCommand(DT_SERVER_CMD, owner.target, o, lua)
          /\ appimage_proc' = SetupProc(owner.target, o)
          /\ helper' = SetupHelper(owner.target, o, obeys)
          /\ owner' = [owner EXCEPT !.mount = o,
                          !.at = IF owner.kind = "main" THEN "body"
                                 ELSE "start"]
    /\ UNCHANGED <<proc, msg_id, pipeVars, callVars, obsVars, scope>>
    /\ UNCHANGED <<visVars, batchVars, httpVars, drainVars>>

\* __enter__ of the with statement, client.start() of probe_darktable_state:
\* Popen of the worker raises FileNotFoundError when the command is not
\* installed, and then neither __exit__ nor the finally clause is reached
HostStart ==
    /\ owner.at = "start"
    /\ \E installed \in BOOLEAN :
          IF installed
          THEN /\ StartBody
               /\ scope' = IF owner.kind = "with" THEN "in" ELSE scope
               /\ owner' = OwnerAt("body")
          ELSE /\ owner' = OwnerAt("done")
               /\ UNCHANGED <<proc, pipeVars, spawns, nStderr, closeRet,
                              scope>>
    /\ UNCHANGED <<msg_id, appimage_proc, callVars, outSince, answered, sent>>
    /\ UNCHANGED <<env, helper, DT_SERVER_CMD>>
    /\ UNCHANGED <<visVars, batchVars, httpVars, drainVars>>

\* the with statement is left, normally or through an exception: __exit__
HostExit ==
    /\ owner.kind = "with" /\ owner.at = "body"
    /\ pc = "idle"
    /\ \E exc \in BOOLEAN : ExitBody(exc)
    /\ owner' = OwnerAt("done")
    /\ UNCHANGED <<msg_id, callVars, outSince, answered, spawns, nStderr>>
    /\ UNCHANGED <<env, DT_SERVER_CMD>>
    /\ UNCHANGED <<visVars, batchVars, httpVars, drainVars>>

\* the finally clause of probe_darktable_state and of main: client.close()
HostClose ==
    /\ owner.kind \in {"probe", "main"} /\ owner.at = "body"
    /\ pc = "idle"
    /\ \E tRaise \in BOOLEAN, obeys \in BOOLEAN, kRaise \in BOOLEAN :
           CloseBody(tRaise, obeys, kRaise)
    /\ owner' = OwnerAt("done")
    /\ UNCHANGED <<msg_id, appimage_proc, callVars, scope,
                   outSince, answered, spawns, nStderr>>
    /\ UNCHANGED <<env, helper, DT_SERVER_CMD>>
    /\ UNCHANGED <<visVars, batchVars, httpVars, drainVars>>

\* an entry point from the construction of its client to its shutdown; the
\* requests of its body are made between the two
NextHost ==
    \/ Construct
    \/ HostStart
    \/ owner.at = "body" /\ \E r \in RequestSet : RequestWrite(r[1], r[2])
    \/ RequestTimeout
    \/ RequestReady
    \/ RequestReadline
    \/ WorkerHandle
    \/ WorkerExit
    \/ HostExit
    \/ HostClose

SpecHost == InitHost /\ [][NextHost]_vars

\* ================================================================
\* prepare_vision_payloads_async
\* ================================================================
\* what the file of a record is on disk: a decodable image, a file the image
\* codec rejects, no file, a path that cannot be read
FileKinds == {"ok", "corrupt", "missing", "unreadable"}

\* the i-th catalog record; identity is the worker-assigned id
Record(i, kind) ==
    [id |-> 100 - i, path |-> <<"dir", ToString(100 - i)>>, file |-> kind]

RawBytes(img)  == <<"raw">> \o img.path \o <<"exif">>
JpegBytes(img) == <<"jpeg">> \o img.path

\* base64.b64encode(raw).decode("ascii")
Base64(bytes) == [encoding |-> "base64", of |-> bytes,
                  len |-> 4 * ((Len(bytes) + 2) \div 3)]

NoB64 == [encoding |-> "", of |-> <<>>, len |-> 0]

encode_image_strict(img) ==
    IF img.file = "ok"
    THEN [raised |-> "", b64 |-> Base64(JpegBytes(img)), mime |-> "image/jpeg"]
    ELSE IF img.file = "missing"
    THEN [raised |-> "FileNotFoundError", b64 |-> NoB64, mime |-> ""]
    ELSE [raised |-> "OSError", b64 |-> NoB64, mime |-> ""]

\* encode_image_to_base64: re-encode as JPEG, fall back to the raw bytes when
\* the codec fails; reading a missing or unreadable file raises
encode_image_to_base64(img) ==
    IF img.file = "ok"
    THEN [raised |-> "", b64 |-> Base64(JpegBytes(img)), mime |-> "image/jpeg"]
    ELSE IF img.file = "corrupt"
    THEN [raised |-> "", b64 |-> Base64(RawBytes(img)), mime |-> "guessed"]
    ELSE IF img.file = "missing"
    THEN [raised |-> "FileNotFoundError", b64 |-> NoB64, mime |-> ""]
    ELSE [raised |-> "OSError", b64 |-> NoB64, mime |-> ""]

NoPayload == [ok |-> FALSE, meta |-> Record(0, ""), b64 |-> NoB64, mime |-> ""]

\* VisionImage(meta=img, path=image_path, b64=b64, data_url=data_url)
VisionImage(img, enc) ==
    [ok |-> TRUE, meta |-> img, b64 |-> enc.b64, mime |-> enc.mime]

ErrorResultSilent(idx, img, raised) ==
    [idx |-> idx, payload |-> NoPayload, error |-> <<>>]

\* the tuple process_single_image returns when encoding raised
ErrorResult(idx, img, raised) ==
    [idx |-> idx, payload |-> NoPayload,
     error |-> IF raised = "FileNotFoundError"
               THEN <<"Arquivo nao encontrado:">> \o img.path
               ELSE <<"Falha ao ler">> \o img.path]

\* the tuple process_single_image returns for an encoded image
PayloadResult(idx, img) ==
    [idx |-> idx, payload |-> VisionImage(img, encode_image_to_base64(img)),
     error |-> <<>>]

SampledEveryItem(current, total) == TRUE

\* current % 3 == 0 or current == 1 or current == total_count
Sampled(current, total) == current % 3 = 0 \/ current = 1 \/ current = total

InsertionKeys(res) == [k \in 1..Len(res) |-> res[k].idx]

\* sorted(results.keys())
SortedKeys(res) == SortSeq([k \in 1..Len(res) |-> res[k].idx],
                           LAMBDA a, b : a < b)

ResultOf(res, idx) == res[CHOOSE k \in 1..Len(res) : res[k].idx = idx]

\* the reconstruction loop: errors and payloads in the order of keys
ErrorsIn(res, keys) ==
    LET hit == SelectSeq(keys, LAMBDA i : ResultOf(res, i).error # <<>>)
    IN  [k \in 1..Len(hit) |-> ResultOf(res, hit[k]).error]

PayloadsInCompletionOrder(res, keys) ==
    LET hit == SelectSeq(InsertionKeys(res),
                         LAMBDA i : /\ ResultOf(res, i).error = <<>>
                                    /\ ResultOf(res, i).payload.ok)
    IN  [k \in 1..Len(hit) |-> ResultOf(res, hit[k]).payload]

PayloadsIn(res, keys) ==
    LET hit == SelectSeq(keys, LAMBDA i : /\ ResultOf(res, i).error = <<>>
                                          /\ ResultOf(res, i).payload.ok)
    IN  [k \in 1..Len(hit) |-> ResultOf(res, hit[k]).payload]

Total == Len(images_list)

\* work items handed to the executor so far
Submitted ==
    { queue[k] : k \in 1..Len(queue) }
        \cup ({ task[w].idx : w \in 1..MaxWorkers } \ {0})
        \cup DOMAIN futures

\* a call of prepare_vision_payloads_async about to be made
VisionCall ==
    /\ \E n \in 0..MaxRecords : \E files \in [1..n -> FileKinds] :
           images_list = [i \in 1..n |-> Record(i, files[i])]
    /\ attach_images \in BOOLEAN
    /\ max_workers \in 1..MaxWorkers
    /\ has_callback \in BOOLEAN
    /\ vpc = "call"
    /\ queue = <<>>
    /\ task = [w \in 1..MaxWorkers |-> NoTask]
    /\ completed_count = 0
    /\ total_b64_size = 0
    /\ futures = <<>>
    /\ results = <<>>
    /\ payloads = <<>>
    /\ errors = <<>>
    /\ progress = <<>>

InitVision == DrainIdle /\ ClientFresh /\ VisionCall /\ BatchIdle /\ HostIdle /\ HttpIdle

argVars == <<images_list, attach_images, max_workers, has_callback>>

EarlyReturnEmptyOnly == Total = 0

\* if not attach_images: return ...; if total_count == 0: return ...
EarlyReturn == ~attach_images \/ Total = 0

\* entry: the two early returns, else go on to the executor
Prepare ==
    /\ vpc = "call"
    /\ vpc' = IF EarlyReturn THEN "done" ELSE "submit"
    /\ UNCHANGED <<argVars, queue, task, completed_count, total_b64_size,
                   futures, results, payloads, errors, progress>>
    /\ UNCHANGED <<rpcVars, batchVars, hostVars, httpVars, drainVars>>

\* executor.submit(process_single_image, idx, img) for the next record
Submit ==
    /\ vpc = "submit"
    /\ LET idx == Cardinality(Submitted) + 1
       IN  /\ queue' = Append(queue, idx)
           /\ vpc' = IF idx = Total THEN "collect" ELSE "submit"
    /\ UNCHANGED <<argVars, task, completed_count, total_b64_size,
                   futures, results, payloads, errors, progress>>
    /\ UNCHANGED <<rpcVars, batchVars, hostVars, httpVars, drainVars>>

\* a free pool thread takes the oldest queued work item
Take(w) ==
    /\ task[w].stage = "idle"
    /\ queue # <<>>
    /\ task' = [task EXCEPT ![w] = [idx |-> Head(queue), stage |-> "run",
                                    current |-> 0]]
    /\ queue' = Tail(queue)
    /\ UNCHANGED <<argVars, vpc, completed_count, total_b64_size,
                   futures, results, payloads, errors, progress>>
    /\ UNCHANGED <<rpcVars, batchVars, hostVars, httpVars, drainVars>>

AddUnlocked(value, n) ==
    IF \E v \in 1..MaxWorkers : task[v].stage = "counted"
    THEN value ELSE value + n

\* with completed_lock: x[0] += n, a read and a write no other thread can
\* come between
AddUnderLock(value, n) == value + n

\* process_single_image up to the release of completed_lock, or up to its
\* return when encoding raised
Encode(w) ==
    /\ task[w].stage = "run"
    /\ LET idx == task[w].idx
           img == images_list[idx]
           enc == encode_image_to_base64(img)
       IN  IF enc.raised = ""
           THEN /\ completed_count' = AddUnderLock(completed_count, 1)
                /\ total_b64_size' = AddUnderLock(total_b64_size, enc.b64.len)
                /\ task' = [task EXCEPT ![w].stage = "counted",
                                        ![w].current = completed_count']
                /\ UNCHANGED futures
           ELSE /\ futures' = futures @@ (idx :> ErrorResult(idx, img, enc.raised))
                /\ task' = [task EXCEPT ![w] = NoTask]
                /\ UNCHANGED <<completed_count, total_b64_size>>
    /\ UNCHANGED <<argVars, vpc, queue, results, payloads, errors, progress>>
    /\ UNCHANGED <<rpcVars, batchVars, hostVars, httpVars, drainVars>>

\* process_single_image after the lock: the sampled progress callback, then
\* the return of the payload
Report(w) ==
    /\ task[w].stage = "counted"
    /\ LET idx == task[w].idx
       IN  /\ progress' = IF has_callback /\ Sampled(task[w].current, Total)
                          THEN Append(progress, <<task[w].current, Total>>)
                          ELSE progress
           /\ futures' = futures @@ (idx :> PayloadResult(idx, images_list[idx]))
           /\ task' = [task EXCEPT ![w] = NoTask]
    /\ UNCHANGED <<argVars, vpc, queue, completed_count, total_b64_size,
                   results, payloads, errors>>
    /\ UNCHANGED <<rpcVars, batchVars, hostVars, httpVars, drainVars>>

\* for future in as_completed(futures): results[idx] = (payload, error)
Collect(idx) ==
    /\ vpc = "collect"
    /\ idx \in DOMAIN futures
    /\ \A k \in 1..Len(results) : results[k].idx # idx
    /\ results' = Append(results, futures[idx])
    /\ UNCHANGED <<argVars, vpc, queue, task, completed_count, total_b64_size,
                   futures, payloads, errors, progress>>
    /\ UNCHANGED <<rpcVars, batchVars, hostVars, httpVars, drainVars>>

PoolDrainedEarly == Len(results) >= 1

\* the as_completed loop has consumed every future and the with block has
\* joined the pool threads
PoolDrained == Len(results) = Total

\* after the executor has shut down: rebuild both lists and return them
Reconstruct ==
    /\ vpc = "collect"
    /\ PoolDrained
    /\ errors' = ErrorsIn(results, SortedKeys(results))
    /\ payloads' = PayloadsIn(results, SortedKeys(results))
    /\ vpc' = "done"
    /\ UNCHANGED <<argVars, queue, task, completed_count, total_b64_size,
                   futures, results, progress>>
    /\ UNCHANGED <<rpcVars, batchVars, hostVars, httpVars, drainVars>>

NextVision ==
    \/ Prepare
    \/ Submit
    \/ \E w \in 1..max_workers : Take(w)
    \/ \E w \in 1..max_workers : Encode(w)
    \/ \E w \in 1..max_workers : Report(w)
    \/ \E idx \in 1..Total : Collect(idx)
    \/ Reconstruct

SpecVision == InitVision /\ [][NextVision]_vars

RECURSIVE SequentialLoop(_, _)
\* the for loop of prepare_vision_payloads: one record after another, an
\* error message appended and the record skipped when encoding raised
\* FileNotFoundError or OSError, else the payload appended
SequentialLoop(list, acc) ==
    IF list = <<>> THEN acc
    ELSE LET img == Head(list)
             enc == encode_image_to_base64(img)
         IN  SequentialLoop(Tail(list),
                 IF enc.raised = ""
                 THEN [acc EXCEPT !.payloads = Append(@, VisionImage(img, enc))]
                 ELSE [acc EXCEPT !.errors =
                          Append(@, IF enc.raised = "FileNotFoundError"
                                    THEN <<"Arquivo nao encontrado:">> \o img.path
                                    ELSE <<"Falha ao ler">> \o img.path)])

\* prepare_vision_payloads(images, attach_images): the sequential version
prepare_vision_payloads(images_arg, attach) ==
    IF ~attach THEN [payloads |-> <<>>, errors |-> <<>>]
    ELSE SequentialLoop(images_arg, [payloads |-> <<>>, errors |-> <<>>])

\* ================================================================
\* BatchProcessor
\* ================================================================
Modes == StageModes \cup {"completo"}

\* getattr(self, "run_mode_" + mode); run_mode_completo calls the four
\* methods one after another
Stages(m) ==
    IF m = "completo" THEN <<"rating", "tagging", "tratamento", "export">>
    ELSE <<m>>

\* the tools of the worker that change the catalog or write files
MutationTools == {"apply_batch_edits", "tag_batch", "export_collection",
                  "set_colorlabel_batch", "import_style", "apply_style"}

\* how client.call_tool ends: a result, or one of the errors request() raises
CallFailures == {"Timeout", "TransportClosed", "RpcError"}
CallOutcomes == {"ok"} \cup CallFailures

\* what the worker lists: nothing, or MaxSample records of which only the
\* last has its file on disk
Catalogs ==
    { <<>>,
      [i \in 1..MaxSample |->
          Record(i, IF i = MaxSample THEN "ok" ELSE "missing")] }

\* images[: args.limit]
Sample ==
    SubSeq(images, 1, IF args.limit < Len(images) THEN args.limit
                      ELSE Len(images))

\* prepare_vision_payloads_async(sample, attach_images=..., max_workers=4):
\* the two lists it returns, which do not depend on the thread schedule
AsyncResult(sample, attach) ==
    IF ~attach \/ sample = <<>>
    THEN [payloads |-> <<>>, errors |-> <<>>]
    ELSE LET res == [i \in 1..Len(sample) |->
                        LET enc == encode_image_to_base64(sample[i])
                        IN  IF enc.raised = ""
                            THEN PayloadResult(i, sample[i])
                            ELSE ErrorResult(i, sample[i], enc.raised)]
         IN  [payloads |-> PayloadsIn(res, SortedKeys(res)),
              errors   |-> ErrorsIn(res, SortedKeys(res))]

\* build_messages: system prompt, then the text listing when no image is
\* attached, else one user message per image and the closing instruction
build_messages(sample, vision_images) ==
    IF vision_images = <<>>
    THEN <<[role |-> "system", images |-> 0], [role |-> "user", images |-> 0]>>
    ELSE <<[role |-> "system", images |-> 0]>>
         \o [k \in 1..Len(vision_images) |-> [role |-> "user", images |-> 1]]
         \o <<[role |-> "user", images |-> 0]>>

\* the metadata provider.chat returns next to the answer
Meta == [provider |-> "ollama", status_code |-> 200]

\* ---------------------------------------------------------------- answers
\* the two spellings of a fence line: three backquotes, alone or followed
\* by the word json
Fence     == "[3 backquotes]"
FenceJson == "[3 backquotes]json"
Fences == {Fence, FenceJson}

\* the first fenced block of the text: an opening fence line, at least one
\* content line, a closing fence line; None when there is none
FirstFence(text) ==
    LET opens == { i \in 1..Len(text) :
                     /\ text[i] \in Fences
                     /\ \E j \in (i + 2)..Len(text) : text[j] \in Fences }
    IN  IF opens = {} THEN <<>>
        ELSE LET i == CHOOSE x \in opens : \A y \in opens : x <= y
                 j == CHOOSE x \in (i + 2)..Len(text) :
                        /\ text[x] \in Fences
                        /\ \A y \in (i + 2)..(x - 1) : text[y] \notin Fences
             IN  <<i, j>>

\* extract_json_from_markdown: the content of the first fenced block, else
\* the text itself
extract_json_from_markdown(text) ==
    IF FirstFence(text) # <<>>
    THEN SubSeq(text, FirstFence(text)[1] + 1, FirstFence(text)[2] - 1)
    ELSE text

Dict(members) == [type |-> "dict", members |-> members]
List(items)   == [type |-> "list", members |-> items]
JSONDecodeError == [type |-> "JSONDecodeError", members |-> <<>>]

EditsText == "{\"edits\":[{\"id\":99,\"rating\":4}]}"
TagsText  == "{\"tags\":[{\"tag\":\"\",\"ids\":[99]},{\"tag\":\"a\",\"ids\":[99]},{\"tag\":\"b\",\"ids\":[98]}]}"
IdsText   == "{\"ids\":[99,98]}"
TreatmentsText == "{\"treatments\":[{\"rating\":2},{\"id\":99,\"rating\":3,\"color_label\":\"red\",\"exposure\":0.5}]}"

\* json.loads on the documents the provider is given to answer with; every
\* other text is not JSON.  A number that is not an object is [scalar |-> n];
\* exposure is kept in hundredths of a stop.
json_loads(text) ==
    IF Len(text) # 1 THEN JSONDecodeError
    ELSE CASE text[1] = EditsText ->
                Dict("edits" :> <<[id |-> 99, rating |-> 4]>>)
           [] text[1] = TagsText ->
                Dict("tags" :> <<[tag |-> "", ids |-> <<99>>],
                                 [tag |-> "a", ids |-> <<99>>],
                                 [tag |-> "b", ids |-> <<98>>]>>)
           [] text[1] = IdsText ->
                Dict("ids" :> <<99, 98>>)
           [] text[1] = TreatmentsText ->
                Dict("treatments" :>
                       <<[rating |-> 2],
                         [id |-> 99, rating |-> 3, color_label |-> "red",
                          exposure |-> 50]>>)
           [] text[1] = "{\"tags\":[7]}" ->
                Dict("tags" :> <<[scalar |-> 7]>>)
           [] text[1] = "{\"treatments\":[7]}" ->
                Dict("treatments" :> <<[scalar |-> 7]>>)
           [] text[1] = "{}" -> Dict(<<>>)
           [] text[1] = "[7]" -> List(<<[scalar |-> 7]>>)
           [] OTHER -> JSONDecodeError

\* parsed.get(key, []) of a dict
Get(parsed, key) ==
    IF key \in DOMAIN parsed.members THEN parsed.members[key] ELSE <<>>

\* json.loads(extract_json_from_markdown(answer)) followed by parsed.get:
\* the except clause of every mode catches both a text that is not JSON and
\* a document that is not an object
Loads(text) == json_loads(extract_json_from_markdown(text))
ParseFails(text) == Loads(text).type # "dict"

\* an entry of the answer that has .get
IsDict(entry) == "scalar" \notin DOMAIN entry

\* entry.get("tag"), entry.get("ids", []) and t.get("id") taken as a
\* condition: a missing key, "", [] and 0 all count as false
HasTag(entry) == "tag" \in DOMAIN entry /\ entry.tag # ""
HasIds(entry) == "ids" \in DOMAIN entry /\ entry.ids # <<>>
HasId(t)      == "id" \in DOMAIN t /\ t.id # 0

\* what the provider may answer in a mode: nothing, prose, JSON without the
\* expected key, a JSON array, and the mode's own documents
CommonAnswers == { <<>>, <<"not json">>, <<"{}">>, <<"[7]">> }

Answers(m) ==
    CommonAnswers \cup
    (CASE m = "rating"  -> { <<FenceJson, EditsText, Fence>> }
       [] m = "tagging" -> { <<TagsText>>, <<"{\"tags\":[7]}">> }
       [] m = "export"  -> { <<"Plan:", Fence, IdsText, Fence>> }
       [] OTHER         -> { <<TreatmentsText>>, <<"{\"treatments\":[7]}">> })

\* ------------------------------------------------------------ name lookup
\* names a method body can read: module globals and the method's own locals
Globals == {"json", "Path", "Optional", "logging", "fetch_images",
            "prepare_vision_payloads", "prepare_vision_payloads_async",
            "save_log", "fallback_user_prompt", "append_export_result_to_log",
            "extract_export_errors", "get_prompt", "LLMProvider",
            "build_messages", "extract_json_from_markdown", "BatchProcessor"}

Locals(fn) ==
    CASE fn = "_process_common" ->
            {"self", "mode", "args", "config_dict", "images", "sample",
             "system_prompt", "vision_images", "vision_errors", "messages",
             "json_module", "payload_size_mb", "answer", "meta",
             "answer_size_kb", "log_file"}
      [] fn = "run_mode_rating" ->
            {"self", "args", "time", "t0", "success", "error_msg", "answer",
             "_", "json_str", "parsed", "edits", "edit", "img_id",
             "new_rating", "img_meta", "img", "filename", "old_rating", "res",
             "result_text", "e"}
      [] fn = "run_mode_tagging" ->
            {"self", "args", "get_prompt", "_", "answer", "json_str",
             "parsed", "tags", "entry", "tag", "ids", "tagged_files", "img",
             "filename", "e"}
      [] OTHER -> {"self", "args"}

\* reading an unbound name raises NameError
Bound(fn, name) == name \in Locals(fn) \cup Globals

\* ------------------------------------------------------------ the run
inVars    == <<mode, dry_run, args, catalog>>
posVars   == <<active, todo, bpc, site>>
localVars == <<images, answer, work, rating_edits, color_edits>>
effVars   == <<logs, chats, calls, printed, metrics, escaped>>

\* a BatchProcessor about to run one mode on a worker with some catalog
BatchCall ==
    /\ mode \in Modes
    /\ dry_run \in BOOLEAN
    /\ args \in [text_only : BOOLEAN, target_dir : {"", "/out"},
                 limit : 1..MaxSample]
    /\ catalog \in Catalogs
    /\ active = ""
    /\ todo = <<>>
    /\ bpc = "run"
    /\ FreshLocals
    /\ NoEffects

InitBatch == DrainIdle /\ ClientFresh /\ VisionIdle /\ BatchCall /\ HostIdle /\ HttpIdle

\* a mutation call as the worker receives it
Call(tool, params) == [mode |-> active, tool |-> tool, params |-> params]

\* an exception leaves the active method and, through it, run()
Raise(exc, at) ==
    /\ escaped' = [exc |-> exc, at |-> at]
    /\ bpc' = "raised"

\* the active method returns through the given site
Return(at) ==
    /\ site' = IF site = "" THEN at ELSE site
    /\ bpc' = "return"

\* _log_metric: one more entry in logs/metrics.json
Metric(m, success, note) == [mode |-> m, success |-> success, note |-> note]

\* run(): dispatch on the mode name
Run ==
    /\ bpc = "run"
    /\ active' = Head(Stages(mode))
    /\ todo' = Tail(Stages(mode))
    /\ bpc' = "enter"
    /\ UNCHANGED <<inVars, site, localVars, effVars>>
    /\ UNCHANGED <<rpcVars, visVars, hostVars, httpVars, drainVars>>

\* the top of a mode method, up to its call of _process_common: tagging,
\* export and tratamento first load their prompt, export needs target_dir
ModeEnter ==
    /\ bpc = "enter"
    /\ \E loads \in BOOLEAN :
          IF active # "rating" /\ ~loads
          THEN /\ printed' = printed \cup {<<active, "prompt failed">>}
               /\ Return("prompt")
          ELSE IF active = "export" /\ args.target_dir = ""
          THEN /\ printed' = printed \cup {<<active, "target-dir required">>}
               /\ Return("target_dir")
          ELSE /\ bpc' = "fetch"
               /\ UNCHANGED <<site, printed>>
    /\ UNCHANGED <<inVars, active, todo, localVars>>
    /\ UNCHANGED <<logs, chats, calls, metrics, escaped>>
    /\ UNCHANGED <<rpcVars, visVars, hostVars, httpVars, drainVars>>

EmptyListProceeds(imgs) == "prompt"

\* if not images: return None, None
AfterFetch(imgs) == IF imgs = <<>> THEN "parse" ELSE "prompt"

\* _process_common: fetch_images, a listing call that may fail
Fetch ==
    /\ bpc = "fetch"
    /\ \E out \in CallOutcomes :
          IF out = "ok"
          THEN /\ images' = catalog
               /\ bpc' = AfterFetch(catalog)
               /\ site' = IF catalog = <<>> THEN "no_images" ELSE site
               /\ UNCHANGED escaped
          ELSE /\ Raise(out, "list_collection")
               /\ UNCHANGED <<images, site>>
    /\ UNCHANGED <<inVars, active, todo>>
    /\ UNCHANGED <<answer, work, rating_edits, color_edits>>
    /\ UNCHANGED <<logs, chats, calls, printed, metrics>>
    /\ UNCHANGED <<rpcVars, visVars, hostVars, httpVars, drainVars>>

\* _process_common: get_prompt(mode, args.prompt_variant)
LoadPrompt ==
    /\ bpc = "prompt"
    /\ \E loads \in BOOLEAN :
          IF loads
          THEN /\ bpc' = "vision"
               /\ UNCHANGED <<site, printed>>
          ELSE /\ printed' = printed \cup {<<active, "prompt failed">>}
               /\ site' = "prompt"
               /\ bpc' = "parse"
    /\ UNCHANGED <<inVars, active, todo, localVars>>
    /\ UNCHANGED <<logs, chats, calls, metrics, escaped>>
    /\ UNCHANGED <<rpcVars, visVars, hostVars, httpVars, drainVars>>

\* what the pipeline returns for the sample of the active method
Vision == AsyncResult(Sample, ~args.text_only)

PreparedAlwaysChats ==
    /\ bpc = "vision"
    /\ bpc' = "chat"
    /\ UNCHANGED <<site, printed>>
    /\ UNCHANGED <<inVars, active, todo, localVars>>
    /\ UNCHANGED <<logs, chats, calls, metrics, escaped>>
    /\ UNCHANGED <<rpcVars, visVars, hostVars, httpVars, drainVars>>

\* _process_common: the image pipeline and the return when images were
\* wanted and none could be read
Prepared ==
    /\ bpc = "vision"
    /\ IF Vision.payloads = <<>> /\ images # <<>> /\ ~args.text_only
       THEN /\ printed' = printed \cup {<<active, "no image on disk">>}
            /\ site' = "no_payloads"
            /\ bpc' = "parse"
       ELSE /\ bpc' = "chat"
            /\ UNCHANGED <<site, printed>>
    /\ UNCHANGED <<inVars, active, todo, localVars>>
    /\ UNCHANGED <<logs, chats, calls, metrics, escaped>>
    /\ UNCHANGED <<rpcVars, visVars, hostVars, httpVars, drainVars>>

\* one provider.chat invocation as the provider sees it
ChatCall ==
    [mode |-> active,
     messages |-> build_messages(Sample, Vision.payloads)]

\* _process_common: provider.chat(messages), which answers or raises once
\* its retries are used up
Chat ==
    /\ bpc = "chat"
    /\ chats' = Append(chats, ChatCall)
    /\ \/ \E a \in Answers(active) :
             /\ answer' = a
             /\ bpc' = "log"
             /\ UNCHANGED escaped
       \/ /\ Raise("SystemExit", "chat")
          /\ UNCHANGED answer
    /\ UNCHANGED <<inVars, active, todo, site>>
    /\ UNCHANGED <<images, work, rating_edits, color_edits>>
    /\ UNCHANGED <<logs, calls, printed, metrics>>
    /\ UNCHANGED <<rpcVars, visVars, hostVars, httpVars, drainVars>>

LogDataExtracted(m, source, sample, model_answer, extra) ==
    [written |-> TRUE, mode |-> m, source |-> source,
     images_sample |-> sample,
     model_answer |-> extract_json_from_markdown(model_answer),
     extra |-> extra]

\* save_log: the dict it dumps to logs/batch-<mode>-<ts>.json
LogData(m, source, sample, model_answer, extra) ==
    [written |-> TRUE, mode |-> m, source |-> source,
     images_sample |-> sample, model_answer |-> model_answer,
     extra |-> extra]

\* _process_common: save_log(mode, args.source, sample, answer, {"llm": meta})
SaveLog ==
    /\ bpc = "log"
    /\ logs' = [logs EXCEPT ![active] =
                   LogData(active, "all", Sample, answer, "llm" :> Meta)]
    /\ bpc' = "parse"
    /\ UNCHANGED <<inVars, active, todo, site, localVars>>
    /\ UNCHANGED <<chats, calls, printed, metrics, escaped>>
    /\ UNCHANGED <<rpcVars, visVars, hostVars, httpVars, drainVars>>

\* ----------------------------------------------------------- rating mode
\* run_mode_rating after _process_common: no answer, an answer that does not
\* parse, an empty edits list, else on to the edits
ParseRating ==
    /\ bpc = "parse" /\ active = "rating"
    /\ IF answer = <<>>
       THEN /\ metrics' = Append(metrics, Metric("rating", FALSE, "no_answer"))
            /\ Return("no_answer")
            /\ UNCHANGED <<work, printed>>
       ELSE IF ParseFails(answer)
       THEN /\ metrics' = Append(metrics, Metric("rating", FALSE, "json"))
            /\ printed' = printed \cup {<<"rating", "Erro JSON">>}
            /\ Return("json_error")
            /\ UNCHANGED work
       ELSE IF Get(Loads(answer), "edits") = <<>>
       THEN /\ metrics' = Append(metrics, Metric("rating", TRUE, "edits 0"))
            /\ printed' = printed \cup {<<"rating", "Nenhuma edicao">>}
            /\ Return("nothing")
            /\ UNCHANGED work
       ELSE /\ work' = Get(Loads(answer), "edits")
            /\ bpc' = "apply"
            /\ UNCHANGED <<site, printed, metrics>>
    /\ UNCHANGED <<inVars, active, todo>>
    /\ UNCHANGED <<images, answer, rating_edits, color_edits>>
    /\ UNCHANGED <<logs, chats, calls, escaped>>
    /\ UNCHANGED <<rpcVars, visVars, hostVars, httpVars, drainVars>>

\* the loop that prints the proposed edits: edit.get, then a search of
\* sample for the image; the exception it raises, "" when it raises none
RatingDisplay(edits) ==
    IF edits = <<>> THEN ""
    ELSE IF ~IsDict(edits[1]) THEN "AttributeError"
    ELSE IF ~Bound("run_mode_rating", "sample") THEN "NameError"
    ELSE ""

\* run_mode_rating from the display loop to the end of the method
ApplyRating ==
    /\ bpc = "apply" /\ active = "rating"
    /\ IF RatingDisplay(work) # ""
       THEN /\ Raise(RatingDisplay(work), "display")
            /\ printed' = printed \cup {<<"rating", "edicoes propostas">>}
            /\ UNCHANGED <<site, calls, metrics>>
       ELSE IF dry_run
       THEN /\ printed' = printed \cup {<<"rating", "DRY-RUN">>}
            /\ metrics' = Append(metrics, Metric("rating", TRUE, "edits"))
            /\ Return("dry_run")
            /\ UNCHANGED <<calls, escaped>>
       ELSE \E out \in CallOutcomes :
            /\ calls' = Append(calls, Call("apply_batch_edits",
                                           [edits |-> work]))
            /\ printed' = printed \cup
                 {<<"rating", IF out = "ok" THEN "result" ELSE "Erro ao aplicar">>}
            /\ metrics' = Append(metrics, Metric("rating", out = "ok", "edits"))
            /\ Return("end")
            /\ UNCHANGED escaped
    /\ UNCHANGED <<inVars, active, todo, localVars>>
    /\ UNCHANGED <<logs, chats>>
    /\ UNCHANGED <<rpcVars, visVars, hostVars, httpVars, drainVars>>

\* ---------------------------------------------------------- tagging mode
\* run_mode_tagging after _process_common, up to the loop over the tags
ParseTagging ==
    /\ bpc = "parse" /\ active = "tagging"
    /\ IF answer = <<>>
       THEN /\ Return("no_answer")
            /\ UNCHANGED <<work, printed>>
       ELSE IF ParseFails(answer)
       THEN /\ printed' = printed \cup {<<"tagging", "Erro JSON">>}
            /\ Return("json_error")
            /\ UNCHANGED work
       ELSE IF dry_run
       THEN /\ printed' = printed \cup {<<"tagging", "DRY-RUN">>}
            /\ Return("dry_run")
            /\ UNCHANGED work
       ELSE /\ work' = Get(Loads(answer), "tags")
            /\ bpc' = "apply"
            /\ UNCHANGED <<site, printed>>
    /\ UNCHANGED <<inVars, active, todo>>
    /\ UNCHANGED <<images, answer, rating_edits, color_edits>>
    /\ UNCHANGED <<logs, chats, calls, metrics, escaped>>
    /\ UNCHANGED <<rpcVars, visVars, hostVars, httpVars, drainVars>>

\* one turn of for entry in tags: the tag_batch call for an entry with a
\* tag and ids, then the list of tagged files read from sample
TagEntry ==
    /\ bpc = "apply" /\ active = "tagging"
    /\ IF work = <<>>
       THEN /\ Return("end")
            /\ UNCHANGED <<work, calls, printed, escaped>>
       ELSE IF ~IsDict(Head(work))
       THEN /\ Raise("AttributeError", "entry.get")
            /\ UNCHANGED <<work, calls, printed, site>>
       ELSE IF HasTag(Head(work)) /\ HasIds(Head(work))
       THEN \E out \in CallOutcomes :
            /\ calls' = Append(calls, Call("tag_batch",
                                  [tag |-> Head(work).tag,
                                   ids |-> Head(work).ids]))
            /\ IF out # "ok"
               THEN /\ Raise(out, "tag_batch")
                    /\ UNCHANGED <<work, printed, site>>
               ELSE IF ~Bound("run_mode_tagging", "sample")
               THEN /\ Raise("NameError", "tagged_files")
                    /\ UNCHANGED <<work, printed, site>>
               ELSE /\ printed' = printed \cup {<<"tagging", "Tag aplicada">>}
                    /\ work' = Tail(work)
                    /\ UNCHANGED <<bpc, site, escaped>>
       ELSE /\ work' = Tail(work)
            /\ UNCHANGED <<bpc, site, calls, printed, escaped>>
    /\ UNCHANGED <<inVars, active, todo>>
    /\ UNCHANGED <<images, answer, rating_edits, color_edits>>
    /\ UNCHANGED <<logs, chats, metrics>>
    /\ UNCHANGED <<rpcVars, visVars, hostVars, httpVars, drainVars>>

\* ----------------------------------------------------------- export mode
\* parsed.get("ids_para_exportar") or parsed.get("ids") or []
ExportIds(parsed) ==
    IF Get(parsed, "ids_para_exportar") # <<>>
    THEN Get(parsed, "ids_para_exportar")
    ELSE Get(parsed, "ids")

\* run_mode_export after _process_common, up to the export call
ParseExport ==
    /\ bpc = "parse" /\ active = "export"
    /\ IF answer = <<>>
       THEN /\ Return("no_answer")
            /\ UNCHANGED <<work, printed>>
       ELSE IF ParseFails(answer)
       THEN /\ Return("json_error")
            /\ UNCHANGED <<work, printed>>
       ELSE IF dry_run
       THEN /\ printed' = printed \cup {<<"export", "imagens para exportar">>}
            /\ Return("dry_run")
            /\ UNCHANGED work
       ELSE /\ printed' = printed \cup {<<"export", "imagens para exportar">>}
            /\ work' = ExportIds(Loads(answer))
            /\ bpc' = "apply"
            /\ UNCHANGED site
    /\ UNCHANGED <<inVars, active, todo>>
    /\ UNCHANGED <<images, answer, rating_edits, color_edits>>
    /\ UNCHANGED <<logs, chats, calls, metrics, escaped>>
    /\ UNCHANGED <<rpcVars, visVars, hostVars, httpVars, drainVars>>

\* what the worker answers to a tool call
ToolResult(tool) == [content |-> <<[text |-> <<tool, "done">>]>>]

\* append_export_result_to_log: read the log, set extra.export_result,
\* write it back
append_export_result_to_log(log, export_result) ==
    [log EXCEPT !.extra = ("export_result" :> export_result) @@ log.extra]

\* run_mode_export: the export_collection call, its result printed and
\* appended to the run log
ExportApply ==
    /\ bpc = "apply" /\ active = "export"
    /\ calls' = Append(calls, Call("export_collection",
                          [target_dir |-> args.target_dir, ids |-> work,
                           format |-> "jpg", overwrite |-> FALSE]))
    /\ \E out \in CallOutcomes :
          IF out # "ok"
          THEN /\ Raise(out, "export_collection")
               /\ UNCHANGED <<site, printed, logs>>
          ELSE /\ printed' = printed \cup {<<"export", "result">>}
               /\ logs' = [logs EXCEPT !["export"] =
                              append_export_result_to_log(
                                  @, ToolResult("export_collection"))]
               /\ Return("end")
               /\ UNCHANGED escaped
    /\ UNCHANGED <<inVars, active, todo, localVars>>
    /\ UNCHANGED <<chats, metrics>>
    /\ UNCHANGED <<rpcVars, visVars, hostVars, httpVars, drainVars>>

\* ------------------------------------------------------- tratamento mode
\* run_mode_tratamento after _process_common, up to the loop over the
\* treatments
ParseTratamento ==
    /\ bpc = "parse" /\ active = "tratamento"
    /\ IF answer = <<>>
       THEN /\ Return("no_answer")
            /\ UNCHANGED <<work, printed>>
       ELSE IF ParseFails(answer)
       THEN /\ printed' = printed \cup {<<"tratamento", "Erro JSON">>}
            /\ Return("json_error")
            /\ UNCHANGED work
       ELSE IF Get(Loads(answer), "treatments") = <<>>
       THEN /\ printed' = printed \cup {<<"tratamento", "Nenhuma sugestao">>}
            /\ Return("nothing")
            /\ UNCHANGED work
       ELSE /\ work' = Get(Loads(answer), "treatments")
            /\ bpc' = "apply"
            /\ UNCHANGED <<site, printed>>
    /\ UNCHANGED <<inVars, active, todo>>
    /\ UNCHANGED <<images, answer, rating_edits, color_edits>>
    /\ UNCHANGED <<logs, chats, calls, metrics, escaped>>
    /\ UNCHANGED <<rpcVars, visVars, hostVars, httpVars, drainVars>>

\* style_params of one treatment: the exposure when it is more than 0.01 EV
StyleParams(t) ==
    IF "exposure" \in DOMAIN t /\ (t.exposure > 1 \/ t.exposure < -1)
    THEN <<t.exposure>>
    ELSE <<>>

StyleWantedOnDryRun(style_params) == style_params # <<>>

\* generate_styles and style_params and not self.dry_run, generate_styles
\* being left at its default
StyleWanted(style_params) == style_params # <<>> /\ ~dry_run

\* "MCP Auto <id> Exp<ev>"
StyleName(t) == <<"MCP Auto", t.id, t.exposure>>

\* the calls the style block makes: the generator may fail before any call,
\* import_style may fail before apply_style
StyleCalls(t, generated, imported) ==
    IF ~generated THEN <<>>
    ELSE <<Call("import_style", [style_name |-> StyleName(t)])>>
         \o IF imported
            THEN <<Call("apply_style", [style_name |-> StyleName(t),
                                        image_ids |-> <<t.id>>])>>
            ELSE <<>>

\* one turn of for t in treatments: collect the rating and colour edits,
\* list the images again for the file name, generate and apply a style
TreatmentEntry ==
    /\ bpc = "apply" /\ active = "tratamento" /\ work # <<>>
    /\ LET t == Head(work)
       IN  IF ~IsDict(t)
           THEN /\ Raise("AttributeError", "t.get")
                /\ UNCHANGED <<work, rating_edits, color_edits, calls, printed>>
           ELSE IF ~HasId(t)
           THEN /\ work' = Tail(work)
                /\ UNCHANGED <<bpc, escaped, rating_edits, color_edits, calls,
                               printed>>
           ELSE \E listed \in CallOutcomes :
                IF listed # "ok"
                THEN /\ Raise(listed, "list_collection")
                     /\ UNCHANGED <<work, rating_edits, color_edits, calls,
                                    printed>>
                ELSE /\ rating_edits' =
                          IF "rating" \in DOMAIN t
                          THEN Append(rating_edits,
                                      [id |-> t.id, rating |-> t.rating])
                          ELSE rating_edits
                     /\ color_edits' =
                          IF "color_label" \in DOMAIN t
                          THEN Append(color_edits,
                                      [id |-> t.id, color |-> t.color_label])
                          ELSE color_edits
                     /\ IF StyleWanted(StyleParams(t))
                        THEN \E generated, imported, applied \in BOOLEAN :
                             /\ calls' = calls \o
                                         StyleCalls(t, generated, imported)
                             /\ printed' = printed \cup
                                  {<<"style", IF generated /\ imported /\ applied
                                              THEN "criado e aplicado"
                                              ELSE "Erro ao aplicar estilo">>}
                        ELSE /\ printed' =
                                  IF StyleParams(t) # <<>> /\ dry_run
                                  THEN printed \cup {<<"style", "DRY-RUN">>}
                                  ELSE printed
                             /\ UNCHANGED calls
                     /\ work' = Tail(work)
                     /\ UNCHANGED <<bpc, escaped>>
    /\ UNCHANGED <<inVars, active, todo, site, images, answer>>
    /\ UNCHANGED <<logs, chats, metrics>>
    /\ UNCHANGED <<rpcVars, visVars, hostVars, httpVars, drainVars>>

\* one guarded batch call of the tail of run_mode_tratamento: made when
\* there are edits, its failure caught and printed
BatchCalls(tool, params, edits) ==
    IF edits # <<>> THEN <<Call(tool, params)>> ELSE <<>>

BatchReport(tool, edits, ok) ==
    IF edits = <<>> THEN {}
    ELSE {<<tool, IF ok THEN "aplicados" ELSE "Erro ao aplicar">>}

\* run_mode_tratamento after the loop: nothing on a dry run, else the rating
\* and colour-label calls, and then the same two calls once more
TreatmentBatch ==
    /\ bpc = "apply" /\ active = "tratamento" /\ work = <<>>
    /\ IF dry_run
       THEN /\ printed' = printed \cup {<<"tratamento", "DRY-RUN">>}
            /\ Return("dry_run")
            /\ UNCHANGED calls
       ELSE \E ok \in [1..4 -> BOOLEAN] :
            LET ratings == BatchCalls("apply_batch_edits",
                                      [edits |-> rating_edits], rating_edits)
                colors  == BatchCalls("set_colorlabel_batch",
                                      [edits |-> color_edits,
                                       overwrite |-> TRUE], color_edits)
            IN  /\ calls' = calls \o ratings \o colors \o ratings \o colors
                /\ printed' = printed
                     \cup BatchReport("apply_batch_edits", rating_edits, ok[1])
                     \cup BatchReport("set_colorlabel_batch", color_edits, ok[2])
                     \cup BatchReport("apply_batch_edits", rating_edits, ok[3])
                     \cup BatchReport("set_colorlabel_batch", color_edits, ok[4])
                /\ Return("end")
    /\ UNCHANGED <<inVars, active, todo, localVars>>
    /\ UNCHANGED <<logs, chats, metrics, escaped>>
    /\ UNCHANGED <<rpcVars, visVars, hostVars, httpVars, drainVars>>

\* ------------------------------------------------------------- the return
\* the active method has returned: run_mode_completo calls the next one,
\* any other mode is over
ModeReturn ==
    /\ bpc = "return"
    /\ IF todo = <<>>
       THEN /\ bpc' = "done"
            /\ UNCHANGED <<active, todo, site, localVars, printed>>
       ELSE /\ active' = Head(todo)
            /\ todo' = Tail(todo)
            /\ bpc' = "enter"
            /\ site' = ""
            /\ images' = <<>>
            /\ answer' = <<>>
            /\ work' = <<>>
            /\ rating_edits' = <<>>
            /\ color_edits' = <<>>
            /\ printed' = {}
    /\ UNCHANGED <<inVars, logs, chats, calls, metrics, escaped>>
    /\ UNCHANGED <<rpcVars, visVars, hostVars, httpVars, drainVars>>

NextBatch ==
    \/ Run
    \/ ModeEnter
    \/ Fetch
    \/ LoadPrompt
    \/ Prepared
    \/ Chat
    \/ SaveLog
    \/ ParseRating
    \/ ApplyRating
    \/ ParseTagging
    \/ TagEntry
    \/ ParseExport
    \/ ExportApply
    \/ ParseTratamento
    \/ TreatmentEntry
    \/ TreatmentBatch
    \/ ModeReturn

SpecBatch == InitBatch /\ [][NextBatch]_vars

\* ================================================================
\* post_json_with_retries
\* ================================================================
\* how one requests.post ends: a response, requests.Timeout, another
\* requests.RequestException, or an exception that is neither (a payload
\* json cannot serialise)
PostOutcomes == {"response", "Timeout", "RequestException", "TypeError"}

\* the retry_delay arguments tried, in seconds
RetryDelays == {0, 1, 2}

\* a call about to enter its loop: attempts = retries + 1, nothing tried yet
HttpCall ==
    http \in [retries : (-1)..MaxRetries, retry_delay : RetryDelays,
              attempt : {0}, trace : {<<>>}, last_timeout_msg : {0},
              last_error : {"None"}, ret : {"loop"}]

InitHttp == DrainIdle /\ ClientFresh /\ VisionIdle /\ BatchIdle /\ HostIdle /\ HttpCall

attempts == http.retries + 1

SleepAfterEveryAttempt(attempt) == TRUE

\* if attempt < attempts: time.sleep(retry_delay)
SleepAfter(attempt) == attempt < attempts

\* one turn of for attempt in range(1, attempts + 1): the POST, its except
\* clauses and the sleep before the next turn
PostAttempt ==
    /\ http.ret = "loop"
    /\ http.attempt < attempts
    /\ \E out \in PostOutcomes :
          LET attempt == http.attempt + 1
              posted  == Append(http.trace, [ev |-> "post", attempt |-> attempt,
                                             out |-> out])
          IN  http' =
                IF out = "response"
                THEN [http EXCEPT !.attempt = attempt, !.trace = posted,
                                  !.ret = "returned"]
                ELSE IF out = "TypeError"
                THEN [http EXCEPT !.attempt = attempt, !.trace = posted,
                                  !.ret = "TypeError"]
                ELSE [http EXCEPT
                        !.attempt = attempt,
                        !.last_timeout_msg =
                            IF out = "Timeout" THEN attempt ELSE @,
                        !.last_error = out,
                        !.trace =
                            IF SleepAfter(attempt)
                            THEN Append(posted, [ev |-> "sleep",
                                                 attempt |-> attempt,
                                                 out |-> http.retry_delay])
                            ELSE posted]
    /\ UNCHANGED <<rpcVars, visVars, batchVars, hostVars, drainVars>>

\* after the loop: SystemExit with the last timeout message, else with the
\* last error, else "Falha desconhecida"
PostGiveUp ==
    /\ http.ret = "loop"
    /\ http.attempt >= attempts
    /\ http' = [http EXCEPT !.ret = "SystemExit"]
    /\ UNCHANGED <<rpcVars, visVars, batchVars, hostVars, drainVars>>

NextHttp ==
    \/ PostAttempt
    \/ PostGiveUp

SpecHttp == InitHttp /\ [][NextHttp]_vars

\* ================================================================
\* _drain_stderr, step by step, on a stream the worker writes in pieces
\* ================================================================
\* what one write of the worker puts into the pipe: text that ends with a
\* newline, or text that stops in mid-line
Chunks == {"line", "part"}

HasNewline(chunks) == \E k \in 1..Len(chunks) : chunks[k] = "line"

RECURSIVE FirstNewline(_)
\* the position of the first chunk that ends a line
FirstNewline(chunks) ==
    IF Head(chunks) = "line" THEN 1 ELSE 1 + FirstNewline(Tail(chunks))

\* a _drain_stderr call about to make its first select: some chunks are in
\* the pipe, the worker is alive or gone
DrainCall ==
    \E pipe \in UNION { [1..n -> Chunks] : n \in 0..1 },
       writer \in {"alive", "exited"} :
          drain = [pipe |-> pipe, buf |-> <<>>, writer |-> writer,
                   wrote |-> Len(pipe), pc |-> "select", lines |-> <<>>]

InitDrain ==
    /\ ClientFresh /\ VisionIdle /\ BatchIdle /\ HostIdle /\ HttpIdle
    /\ DrainCall

\* select.select([self.proc.stderr], [], [], 0): the descriptor is readable
\* when the pipe holds bytes or its write end is closed
SelectReady == drain.pipe # <<>> \/ drain.writer = "exited"

\* ready, _, _ = select(...); if not ready: break
DrainSelect ==
    /\ drain.pc = "select"
    /\ drain' = [drain EXCEPT !.pc = IF SelectReady THEN "readline"
                                     ELSE "returned"]
    /\ UNCHANGED <<rpcVars, visVars, batchVars, hostVars, httpVars>>

\* line = self.proc.stderr.readline(): served from the buffer when it holds
\* a whole line, else the pipe is read; without a newline it reads on until
\* the worker writes one or closes the stream.  if not line: break
DrainReadline ==
    /\ drain.pc \in {"readline", "blocked"}
    /\ drain.pc = "blocked" => drain.pipe # <<>> \/ drain.writer = "exited"
    /\ LET all == drain.buf \o drain.pipe
       IN  drain' =
             IF HasNewline(drain.buf)
             THEN [drain EXCEPT
                     !.buf = SubSeq(drain.buf, FirstNewline(drain.buf) + 1,
                                    Len(drain.buf)),
                     !.lines = Append(@, SubSeq(drain.buf, 1,
                                                FirstNewline(drain.buf))),
                     !.pc = "select"]
             ELSE IF HasNewline(all)
             THEN [drain EXCEPT
                     !.pipe = <<>>,
                     !.buf = SubSeq(all, FirstNewline(all) + 1, Len(all)),
                     !.lines = Append(@, SubSeq(all, 1, FirstNewline(all))),
                     !.pc = "select"]
             ELSE IF drain.writer = "exited"
             THEN IF all = <<>>
                  THEN [drain EXCEPT !.pc = "returned"]
                  ELSE [drain EXCEPT !.pipe = <<>>, !.buf = <<>>,
                                     !.lines = Append(@, all),
                                     !.pc = "select"]
             ELSE [drain EXCEPT !.pipe = <<>>, !.buf = all, !.pc = "blocked"]
    /\ UNCHANGED <<rpcVars, visVars, batchVars, hostVars, httpVars>>

\* the worker writes to its stderr
DrainWorkerWrite ==
    /\ drain.writer = "alive"
    /\ drain.pc # "returned"
    /\ drain.wrote < MaxChunks
    /\ \E c \in Chunks :
          drain' = [drain EXCEPT !.pipe = Append(@, c), !.wrote = @ + 1]
    /\ UNCHANGED <<rpcVars, visVars, batchVars, hostVars, httpVars>>

\* the worker exits: the write end of the pipe is closed
DrainWorkerExit ==
    /\ drain.writer = "alive"
    /\ drain.pc # "returned"
    /\ drain' = [drain EXCEPT !.writer = "exited"]
    /\ UNCHANGED <<rpcVars, visVars, batchVars, hostVars, httpVars>>

NextDrain ==
    \/ DrainSelect
    \/ DrainReadline
    \/ DrainWorkerWrite
    \/ DrainWorkerExit

SpecDrain == InitDrain /\ [][NextDrain]_vars

\* ================================================================ claims
LineIds(lines) == { LineId(lines[i]) : i \in 1..Len(lines) }

\* requests whose line was written to the worker and whose response line has
\* not been read by the host
Outstanding ==
    LineIds(stdinPipe) \cup LineIds(stdoutPipe) \cup LineIds(stdoutBuf)
        \cup (IF pc \in {"select", "readline"} THEN {cur.id} ELSE {})

Member(line, k, v) == \E i \in 1..Len(line.members) : line.members[i] = <<k, v>>
HasKey(line, k)    == \E i \in 1..Len(line.members) : line.members[i][1] = k

\* C1: the response line a request call consumes is the one the worker
\* produced for that call's own request id.
C1_ResponseMatchesRequest ==
    last.gotLine => LineId(last.line) = last.id

\* C2: when the worker (alive) has produced no output since the request line
\* was written, the call fails with Timeout, and every diagnostic line that was
\* available at that moment is part of the error message.
C2_TimeoutCarriesDiagnostics ==
    /\ (pc = "idle" /\ last.kind # "none" /\ last.running /\ ~last.exited
            /\ ~outSince)
          => last.kind = "Timeout"
    /\ last.kind = "Timeout"
          => \A i \in 1..Len(last.avail) :
                 Contains(last.message, Strip(last.avail[i]))

\* C3: a call on a started transport whose worker has exited without replying
\* to it fails with TransportClosed ("stdout vazio") and with nothing else.
C3_ExitBeforeReplyIsTransportClosed ==
    (last.kind # "none" /\ last.running /\ last.exited /\ ~last.answered)
        => last.kind = "TransportClosed"

\* C4: the k-th request call carries correlation id k, whatever the outcome of
\* the earlier calls.
C4_IdsCountCalls ==
    /\ Len(ids) = msg_id
    /\ \A k \in 1..Len(ids) : ids[k] = ToString(k)

C4_Witness ==
    /\ Len(ids) = 2
    /\ last.id = "1"
    /\ last.kind \in {"Timeout", "RpcError", "BrokenPipeError"}
    /\ pc = "select"

\* C5: at most one request is outstanding (line written, response line not yet
\* read) at any moment.
C5_AtMostOneOutstanding ==
    Cardinality(Outstanding) <= 1

\* C6: once close() has returned on a started transport, none of the worker's
\* three streams is open.
C6_NoStreamOpenAfterClose ==
    (closeRet \in {"returned", "noop"} /\ spawns > 0)
        => \A st \in DOMAIN streams : ~streams[st]

C6_Witness ==
    /\ closeRet = "returned"
    /\ sent = <<"TERM", "KILL">>
    /\ \A st \in DOMAIN streams : ~streams[st]

\* C7: a close() call that follows a close() that returned changes nothing of
\* the transport and sends no signal.
C7_SecondCloseIsNoop ==
    [][ (Close /\ closeRet \in {"returned", "noop"})
            => /\ UNCHANGED <<clientVars, pipeVars, callVars>>
               /\ sent' = <<>>
               /\ closeRet' = "noop" ]_vars

C7_Witness ==
    closeRet = "noop" /\ spawns > 0 /\ worker = "exited"

\* C8: after a with-block was left through an exception, the worker is
\* observably exited through the client's process handle
\* (client.proc.poll() is not None).
C8_ExitedThroughHandle ==
    (scope = "exited_exc" /\ closeRet = "returned")
        => (proc = "Popen" /\ worker = "exited")

\* C9: for a response line that parses as JSON, the call returns the value of
\* the result member when there is no error member, and fails with an
\* RpcError carrying the error member otherwise.
C9_ResultOrRpcError ==
    (last.gotLine /\ last.line.json) =>
        IF HasKey(last.line, "error")
        THEN last.kind = "RpcError" /\ Member(last.line, "error", last.value)
        ELSE last.kind = "Result" /\ Member(last.line, "result", last.value)

C9_Witness ==
    /\ last.kind = "Result"
    /\ last.value = <<"echo", "foo", "bar">>
    /\ last.id = LineId(last.line)

\* the positions of the records whose processing returned a payload
Succeeded ==
    SelectSeq([i \in 1..Total |-> i],
              LAMBDA i : i \in DOMAIN futures /\ futures[i].error = <<>>)

\* C10: with attach_images, the returned payload list is the input list
\* restricted to the records that succeeded, in input order.
C10_PayloadsInInputOrder ==
    (vpc = "done" /\ attach_images) =>
        /\ Len(payloads) = Len(Succeeded)
        /\ \A k \in 1..Len(payloads) :
               payloads[k].meta = images_list[Succeeded[k]]

C10_Witness ==
    /\ vpc = "done"
    /\ Len(payloads) = 2
    /\ Len(errors) = 1
    /\ results[1].idx = 3
    /\ results[1].error = <<>>
\* entries of the errors list that name the file of record i
ErrorsOf(i) ==
    { k \in 1..Len(errors) :
        errors[k] \in { <<"Arquivo nao encontrado:">> \o images_list[i].path,
                        <<"Falha ao ler">> \o images_list[i].path } }

\* entries of the payloads list built from record i
PayloadsOf(i) == { k \in 1..Len(payloads) : payloads[k].meta = images_list[i] }

\* C11: once the call has returned, a record whose file does not exist has
\* exactly one entry in errors (the file-not-found message for its path) and
\* none in payloads, and every other record of the batch still has exactly
\* one outcome, in every order the pool threads ran in.
C11_MissingFileIsOneError ==
    (vpc = "done" /\ attach_images) =>
        \A i \in 1..Total :
            images_list[i].file = "missing" =>
                /\ Cardinality(ErrorsOf(i)) = 1
                /\ \A k \in ErrorsOf(i) :
                       errors[k] = <<"Arquivo nao encontrado:">> \o images_list[i].path
                /\ PayloadsOf(i) = {}
                /\ \A j \in (1..Total) \ {i} :
                       Cardinality(ErrorsOf(j)) + Cardinality(PayloadsOf(j)) = 1

\* a missing file between two good ones, the good ones finished first
C11_Witness ==
    /\ vpc = "done" /\ Total = 3 /\ max_workers = 2
    /\ images_list[1].file = "ok"
    /\ images_list[2].file = "missing"
    /\ images_list[3].file = "ok"
    /\ Len(results) = 3
    /\ results[3].idx = 2
    /\ Len(errors) = 1 /\ Len(payloads) = 2

\* the file of the record can be read: encoding it does not raise
Readable(img) == encode_image_to_base64(img).raised = ""

ReadableRecords == SelectSeq(images_list, Readable)

\* C12: the call returns only when no work item is queued or running and
\* every record has a result; then len(payloads) + len(errors) is the number
\* of records and payloads are exactly the records whose file could be read.
C12_OneOutcomePerRecord ==
    (vpc = "done" /\ attach_images) =>
        /\ queue = <<>>
        /\ \A w \in 1..MaxWorkers : task[w] = NoTask
        /\ DOMAIN futures = 1..Total
        /\ Len(payloads) + Len(errors) = Total
        /\ Len(payloads) = Len(ReadableRecords)
        /\ \A k \in 1..Len(payloads) : payloads[k].meta = ReadableRecords[k]

\* a batch with missing files on more threads than one
C12_Witness ==
    /\ vpc = "done" /\ Total = 3 /\ max_workers = 2
    /\ images_list[1].file = "missing"
    /\ images_list[3].file = "missing"
    /\ Len(payloads) = 1 /\ Len(errors) = 2

\* C13: with attach_images false the call returns two empty lists, and no
\* work item is ever queued, run or counted, whatever the input list and
\* the pool size.
C13_NoAttachReturnsEmpty ==
    ~attach_images =>
        /\ vpc \in {"call", "done"}
        /\ payloads = <<>> /\ errors = <<>>
        /\ queue = <<>> /\ futures = <<>> /\ results = <<>>
        /\ \A w \in 1..MaxWorkers : task[w] = NoTask
        /\ completed_count = 0 /\ total_b64_size = 0 /\ progress = <<>>

C13_Witness ==
    /\ vpc = "done" /\ ~attach_images
    /\ Total = 3 /\ max_workers = 2
    /\ images_list[1].file = "ok" /\ images_list[2].file = "missing"

\* the mutation calls made by the method of mode m
CallsOf(m) == SelectSeq(calls, LAMBDA c : c.mode = m)

\* the active method is over: it returned or an exception left it
Over == bpc \in {"return", "raised", "done"}

\* C14: on a dry run no mutation tool (apply_batch_edits, tag_batch,
\* export_collection, set_colorlabel_batch, import_style, apply_style) is
\* ever called, in any mode and for any model answer.
C14_DryRunNeverMutates ==
    dry_run => \A k \in 1..Len(calls) : calls[k].tool \notin MutationTools

\* a dry run of completo got through all four modes, tagging and tratamento
\* having parsed an answer that asks for mutations
C14_Witness ==
    /\ dry_run /\ mode = "completo" /\ bpc = "done"
    /\ active = "export" /\ site = "dry_run"
    /\ logs["tagging"].model_answer = <<TagsText>>
    /\ logs["tratamento"].model_answer = <<TreatmentsText>>
    /\ <<"export", "imagens para exportar">> \in printed

\* the answer of the active method parses to a non-empty list under key
EntriesOf(key) ==
    IF answer = <<>> \/ ParseFails(answer) THEN <<>>
    ELSE Get(Loads(answer), key)

\* C15: on a dry run of rating mode with an answer that contains edits, the
\* run log holds the answer exactly as the model gave it, fence lines
\* included, and at no point of a dry run does any run log carry an export
\* or mutation result.
C15_DryRunLogIsRawAnswer ==
    dry_run =>
        /\ \A m \in StageModes : DOMAIN logs[m].extra \subseteq {"llm"}
        /\ (active = "rating" /\ logs["rating"].written
                /\ EntriesOf("edits") # <<>>) =>
              /\ logs["rating"].model_answer = answer
              /\ logs["rating"].images_sample = Sample

\* the log of a dry rating run whose fenced answer held an edit, after the
\* method is over
C15_Witness ==
    /\ dry_run /\ active = "rating" /\ Over
    /\ logs["rating"].written
    /\ logs["rating"].model_answer = <<FenceJson, EditsText, Fence>>
    /\ EntriesOf("edits") = <<[id |-> 99, rating |-> 4]>>

\* C16: when rating mode, not on a dry run, is over and the answer parsed to
\* a non-empty edits list, apply_batch_edits has been called exactly once
\* with those edits and its result or its failure has been printed.
C16_RatingAppliesEdits ==
    (active = "rating" /\ ~dry_run /\ Over /\ EntriesOf("edits") # <<>>) =>
        /\ CallsOf("rating") =
              <<[mode |-> "rating", tool |-> "apply_batch_edits",
                 params |-> [edits |-> EntriesOf("edits")]]>>
        /\ \/ <<"rating", "result">> \in printed
           \/ <<"rating", "Erro ao aplicar">> \in printed

\* the entries of the tags list that have a tag and ids, as tag_batch calls
ExpectedTagCalls ==
    LET valid == SelectSeq(EntriesOf("tags"),
                           LAMBDA e : HasTag(e) /\ HasIds(e))
    IN  [k \in 1..Len(valid) |->
            [mode |-> "tagging", tool |-> "tag_batch",
             params |-> [tag |-> valid[k].tag, ids |-> valid[k].ids]]]

\* C17: when tagging mode, not on a dry run, is over and no tag_batch call
\* failed, tag_batch has been called once for each entry of the parsed tags
\* list that has a tag and ids, in the order of the answer, and for no other.
C17_TagBatchPerEntry ==
    (active = "tagging" /\ ~dry_run /\ Over /\ escaped.exc \notin CallFailures
        /\ answer # <<>> /\ ~ParseFails(answer)) =>
        CallsOf("tagging") = ExpectedTagCalls

\* C18: a failure of a mutation call (Timeout, TransportClosed, RpcError)
\* never leaves the mode's method as an exception.
C18_MutationFailureDoesNotEscape ==
    escaped.exc \in CallFailures => escaped.at \notin MutationTools

\* the top-level keys a mode reads from the parsed answer
ExpectedKeys(m) ==
    CASE m = "rating"  -> {"edits"}
      [] m = "tagging" -> {"tags"}
      [] m = "export"  -> {"ids_para_exportar", "ids"}
      [] OTHER         -> {"treatments"}

\* the answer is not JSON, is not an object, has none of the keys the mode
\* reads, or lists an entry that is not an object
LacksStructure(m, text) ==
    \/ ParseFails(text)
    \/ DOMAIN Loads(text).members \cap ExpectedKeys(m) = {}
    \/ /\ m # "export"
       /\ \E key \in DOMAIN Loads(text).members \cap ExpectedKeys(m) :
             \E k \in 1..Len(Loads(text).members[key]) :
                ~IsDict(Loads(text).members[key][k])

\* C19: when the model answer is not valid JSON or lacks the structure the
\* mode expects, the mode's method calls no mutation tool and no exception
\* leaves it.
C19_MalformedAnswerIsHarmless ==
    (active \in StageModes /\ answer # <<>> /\ LacksStructure(active, answer)) =>
        /\ CallsOf(active) = <<>>
        /\ escaped = NoRaise

C21_SampleRunIsLogged ==
    (active \in StageModes /\ Over /\ images # <<>>) =>
        /\ logs[active].written
        /\ logs[active].images_sample = Sample
        /\ logs[active].model_answer = answer

\* C22: when the method of a mode has run to its end having called a
\* mutation tool, the run log of that mode carries the mutation result under
\* extra, next to the llm metadata, and its other fields are as save_log
\* wrote them.
C22_MutationResultInLog ==
    (active \in StageModes /\ bpc \in {"return", "done"} /\ site = "end"
        /\ CallsOf(active) # <<>>) =>
        /\ logs[active].written
        /\ DOMAIN logs[active].extra \ {"llm"} # {}
        /\ [logs[active] EXCEPT !.extra = "llm" :> Meta] =
              LogData(active, "all", Sample, answer, "llm" :> Meta)

\* C23: in a run of completo, a stage whose mutation call failed (Timeout,
\* TransportClosed, RpcError) does not end the run while later stages are
\* still to be started: the run stops on such a failure only in its last
\* stage.
C23_CompletoSurvivesMutationFailure ==
    (mode = "completo" /\ bpc = "raised" /\ escaped.exc \in CallFailures
        /\ escaped.at \in MutationTools) =>
        todo = <<>>

\* C24: once the entry point that owns a client has shut it down, a mount
\* helper that was spawned for the client has been sent terminate exactly
\* once.
C24_HelperTerminatedOnce ==
    (owner.at = "done" /\ helper.state # "none") => helper.terms = 1

C26_ClosedStaysClosed ==
    [][(proc = "None" /\ spawns > 0) =>
          (proc' = "None" /\ spawns' = spawns)]_vars

\* C27: a call of start() or __enter__ on a client whose worker handle is
\* set spawns nothing and leaves the handle, the worker, the three streams
\* and their contents, and the id counter as they were.
C27_StartIdempotentWhileRunning ==
    [][(proc = "Popen" /\ (Start \/ Enter)) =>
          UNCHANGED <<proc, msg_id, pipeVars, spawns>>]_vars

\* a running client that has made a call and has a response line waiting:
\* start() called here returns at its first test and leaves this very state
C27_Witness ==
    /\ proc = "Popen" /\ worker = "alive" /\ pc = "idle"
    /\ spawns = 1 /\ msg_id = 2
    /\ last.kind = "Timeout"
    /\ stdoutPipe # <<>>
    /\ streams = AllOpen

\* C28: whenever an entry point has issued a request, its client had
\* spawned a worker before, and every finished request was made with the
\* worker handle set (after start, before close).
C28_RequestsOnlyWhileRunning ==
    ids # <<>> =>
        /\ spawns > 0
        /\ last # NoCall => last.running

\* C29: the step in which a request ends with Timeout leaves the worker
\* handle set, the worker alive and the three streams open, sends the worker
\* no signal and spawns nothing; the id counter stays at the id of the
\* request that timed out.
C29_TimeoutLeavesTransportRunning ==
    [][(pc = "select" /\ pc' = "idle" /\ last'.kind = "Timeout") =>
          /\ proc' = "Popen" /\ worker' = "alive"
          /\ streams' = AllOpen /\ streams = AllOpen
          /\ sent' = sent
          /\ spawns' = spawns
          /\ msg_id' = msg_id /\ ToString(msg_id') = last'.id]_vars

\* the first request of a client timed out and nothing else has happened
C29_Witness ==
    /\ last.kind = "Timeout" /\ last.id = "1" /\ pc = "idle"
    /\ proc = "Popen" /\ worker = "alive" /\ streams = AllOpen
    /\ sent = <<>> /\ closeRet = "none"
    /\ msg_id = 1 /\ spawns = 1

\* the POST attempts of the call, in order
Posts == SelectSeq(http.trace, LAMBDA e : e.ev = "post")

\* C30: post_json_with_retries makes at most retries + 1 POST attempts; an
\* attempt that gets a response is the last thing the call does and the
\* call returns it; between two consecutive attempts, and nowhere else, it
\* sleeps retry_delay once; it raises SystemExit only after retries + 1
\* attempts, all of which failed.
C30_BoundedRetries ==
    LET t == http.trace
    IN  /\ Len(Posts) <= IF attempts > 0 THEN attempts ELSE 0
        /\ \A k \in 1..Len(t) :
              /\ (t[k].ev = "post" /\ t[k].out = "response") =>
                    (k = Len(t) /\ http.ret = "returned")
              /\ (t[k].ev = "post" /\ k < Len(t)) =>
                    (t[k + 1].ev = "sleep" /\ t[k + 1].out = http.retry_delay)
              /\ t[k].ev = "sleep" =>
                    /\ k > 1 /\ t[k - 1].ev = "post"
                    /\ k = Len(t) => http.ret = "loop"
        /\ http.ret = "returned" =>
              (t # <<>> /\ t[Len(t)].out = "response")
        /\ http.ret = "SystemExit" =>
              /\ Len(Posts) = IF attempts > 0 THEN attempts ELSE 0
              /\ \A k \in 1..Len(Posts) :
                    Posts[k].out \in {"Timeout", "RequestException"}

\* retries = 2: three failed attempts with a sleep after the first and the
\* second, then SystemExit
C30_Witness ==
    /\ http.retries = 2 /\ http.retry_delay = 2
    /\ http.ret = "SystemExit"
    /\ Len(Posts) = 3 /\ Len(http.trace) = 5
    /\ http.trace[2].ev = "sleep" /\ http.trace[4].ev = "sleep"

\* C31: a close() call on a started client, whichever of its cleanup steps
\* fails, ends by returning, with every stream closed and the worker handle
\* dropped; it never ends by raising.
C31_CloseIsTotal ==
    closeRet \in {"returned", "raised"} =>
        /\ closeRet = "returned"
        /\ streams = AllClosed
        /\ proc = "None"

\* C32: a _drain_stderr call never waits for the worker: at no point is it
\* inside a read that can only go on once the worker has written more or
\* has closed the stream.
C32_DrainNeverWaits == drain.pc # "blocked"

RECURSIVE SumB64(_)
\* the summed base64 length of a list of payloads
SumB64(list) ==
    IF list = <<>> THEN 0 ELSE Head(list).b64.len + SumB64(Tail(list))

Reported == [k \in 1..Len(progress) |-> progress[k][1]]

\* the sampling points of a batch of n records as the claim lists them: the
\* first item, every third item, the last item
SamplingPoints(n) == {1} \cup {c \in 1..n : c % 3 = 0} \cup {n}

C35_UndecodableFileSentRaw ==
    (vpc = "done" /\ ~EarlyReturn) =>
        \A i \in 1..Total :
            images_list[i].file = "corrupt" =>
                /\ Cardinality({k \in 1..Len(payloads) :
                                   payloads[k].meta = images_list[i]}) = 1
                /\ \A k \in 1..Len(payloads) :
                       payloads[k].meta = images_list[i] =>
                           payloads[k].b64 = Base64(RawBytes(images_list[i]))
                /\ \A k \in 1..Len(errors) :
                       SubSeq(errors[k], 2, Len(errors[k])) # images_list[i].path

\* an undecodable file between a decodable one and a missing one
C35_Witness ==
    /\ vpc = "done" /\ Total = 3
    /\ images_list[1].file = "ok"
    /\ images_list[2].file = "corrupt"
    /\ images_list[3].file = "missing"
    /\ Len(payloads) = 2 /\ Len(errors) = 1
    /\ payloads[2].b64 = Base64(RawBytes(images_list[2]))

\* C37: the completed counts delivered to the progress callback are observed
\* in strictly increasing order.
C37_ProgressStrictlyIncreasing ==
    \A j, k \in 1..Len(progress) : j < k => Reported[j] < Reported[k]

\* C38: whenever prepare_vision_payloads returns for the same records and
\* the same attach_images, prepare_vision_payloads_async returns the same
\* payload list and the same errors list, whatever the thread schedule and
\* the number of pool threads.
C38_AsyncEqualsSequential ==
    vpc = "done" =>
        /\ payloads = prepare_vision_payloads(images_list, attach_images).payloads
        /\ errors = prepare_vision_payloads(images_list, attach_images).errors

\* three records of which the first fails, collected out of input order
C38_Witness ==
    /\ vpc = "done" /\ Total = 3 /\ attach_images
    /\ InsertionKeys(results) # SortedKeys(results)
    /\ Len(errors) = 1 /\ Len(payloads) = 2
    /\ images_list[1].file = "missing"
    /\ payloads = prepare_vision_payloads(images_list, attach_images).payloads

\* C36: constructing an McpClient never modifies the command list the caller
\* passed: the shared DT_SERVER_CMD holds its original command after every
\* construction, so the next client built from it starts from the same
\* command.
C36_CommandListUntouched == DT_SERVER_CMD = OriginalCommand

\* the calls of one batch tool made by the tratamento method
BatchCallsMade(tool) ==
    Cardinality({k \in 1..Len(calls) : /\ calls[k].mode = "tratamento"
                                       /\ calls[k].tool = tool})

\* C39: in one tratamento run that is not a dry run, each batch mutation
\* (the rating batch, the colour-label batch) is sent to the worker at most
\* once.
C39_BatchMutationsAtMostOnce ==
    ~dry_run =>
        /\ BatchCallsMade("apply_batch_edits") <= 1
        /\ BatchCallsMade("set_colorlabel_batch") <= 1

\* images were to be attached, the sample is not empty and no record of it
\* could be encoded
NothingToSend ==
    /\ ~args.text_only
    /\ Sample # <<>>
    /\ Vision.payloads = <<>>

\* C40: when images are to be attached and no payload was produced for a
\* non-empty sample, the run makes no LLM call, writes no log and makes no
\* mutation call, and the method leaves the pipeline step straight for its
\* no-answer return; with at least one payload the step goes on to the LLM
\* call, per-record errors or not, and that call is made.
C40_NoPayloadNoCall ==
    /\ [](NothingToSend =>
             /\ chats = <<>>
             /\ calls = <<>>
             /\ \A m \in StageModes : ~logs[m].written)
    /\ [][(bpc = "vision" /\ NothingToSend) =>
             (bpc' = "parse" /\ answer' = <<>>)]_vars
    /\ [][(bpc = "vision" /\ ~args.text_only /\ Vision.payloads # <<>>) =>
             bpc' = "chat"]_vars
    /\ [][bpc = "chat" => Len(chats') = Len(chats) + 1]_vars

\* a sample of one missing file and one readable file: the LLM was called
\* with one image although one record failed
C40_WitnessSomePayload ==
    /\ ~args.text_only
    /\ Len(Vision.payloads) = 1 /\ Len(Vision.errors) = 1
    /\ Len(chats) = 1
    /\ logs[active].written

\* a sample of one missing file: the method has returned with nothing done
C40_Witness ==
    /\ NothingToSend
    /\ site = "no_payloads"
    /\ bpc = "return"
    /\ chats = <<>> /\ calls = <<>>

====
